---- MODULE Spec2Model ----
(***************************************************************************)
(* Model of the limit order book matching engine: the per-instrument       *)
(* OrderBook (orderbook.cpp / orderbook.hpp) and the threaded pipeline of  *)
(* main.cpp (reader, router, book workers, stopper, writer) connected by   *)
(* ThreadSafeQueue instances.                                              *)
(*                                                                         *)
(* Spec      one book fed an arbitrary sequence of events                  *)
(* PipeSpec  the pipeline of main.cpp under every thread interleaving      *)
(***************************************************************************)
EXTENDS Integers, Sequences, FiniteSets, TLC

\* ------------------------------------------------------------------ bounds

MaxEvents == 3      \* events fed to the book in one behaviour
MaxId     == 3      \* order ids are 1..MaxId
MaxQty    == 2      \* quantities are 0..MaxQty
MaxPrice  == 2      \* limit prices are 1..MaxPrice
MaxTs     == 2      \* timestamps are 1..MaxTs (not monotone: the code does not enforce it)

OrderIds   == 1..MaxId
Qtys       == 0..MaxQty
Prices     == 1..MaxPrice
Timestamps == 1..MaxTs

\* ------------------------------------------------------------------ order.hpp

Side        == {"BUY", "SELL"}
OrderType   == {"LIMIT", "MARKET"}
OrderAction == {"NEW", "MODIFY", "CANCEL"}
OrderStatus == {"PENDING", "PARTIALLY_EXECUTED", "EXECUTED", "CANCELED", "REJECTED", "UNKNOWN"}

sideToString(s)         == IF s \in Side THEN s ELSE "UNKNOWN_SIDE"
orderTypeToString(t)    == IF t \in OrderType THEN t ELSE "UNKNOWN_TYPE"
orderActionToString(a)  == IF a \in OrderAction THEN a ELSE "UNKNOWN_ACTION"
orderStatusToString(st) == IF st \in OrderStatus \ {"UNKNOWN"} THEN st ELSE "UNKNOWN_STATUS"

\* The Order struct as parseCsvLineToOrder leaves it: remaining = quantity,
\* cumulative = 0, status UNKNOWN; a MARKET order's price is stored as 0.
\* seq is history, not a field of the struct: the number of the push_back that
\* put the order into its level (0 while it is in no level).
Order(ts, oid, instr, s, ot, q, p, oa) ==
    [timestamp |-> ts, order_id |-> oid, instrument |-> instr, side |-> s,
     type |-> ot, quantity |-> q, price |-> IF ot = "MARKET" THEN 0 ELSE p,
     action |-> oa, remaining_quantity |-> q,
     cumulative_executed_quantity |-> 0, status |-> "UNKNOWN",
     seq |-> 0]

\* ------------------------------------------------------------------ helpers

Min(a, b) == IF a < b THEN a ELSE b
SetMax(S) == CHOOSE x \in S : \A y \in S : y <= x
SetMin(S) == CHOOSE x \in S : \A y \in S : x <= y

\* A ladder (std::map<double, std::list<Order>>) is a function from the prices
\* that have a level to the level's FIFO.  The empty ladder is << >>.
EmptyLadder == << >>
LadderEmpty(l) == DOMAIN l = {}

\* map::erase(key)
Erase(l, p) ==
    IF DOMAIN l \ {p} = {} THEN EmptyLadder
    ELSE [q \in DOMAIN l \ {p} |-> l[q]]

\* map[price].push_back(order)
PushBackAlt(l, p, o) ==
    IF p \in DOMAIN l THEN [l EXCEPT ![p] = <<o>> \o @]
    ELSE [q \in DOMAIN l \cup {p} |-> IF q = p THEN <<o>> ELSE l[q]]
PushBack(l, p, o) ==
    IF p \in DOMAIN l THEN [l EXCEPT ![p] = Append(@, o)]
    ELSE [q \in DOMAIN l \cup {p} |-> IF q = p THEN <<o>> ELSE l[q]]

\* bids_ is ordered by std::greater: begin() is the highest price.
BidsBeginAlt(l) == SetMin(DOMAIN l)
BidsBegin(l) == SetMax(DOMAIN l)
\* asks_ is ordered ascending: begin() is the lowest price.
AsksBeginAlt(l) == SetMax(DOMAIN l)
AsksBegin(l) == SetMin(DOMAIN l)

\* list::front()
FrontAlt(level) == level[Len(level)]
Front(level) == Head(level)

\* Replace the front element of level p by o (writes through the reference
\* returned by front()).
SetFront(l, p, o) == [l EXCEPT ![p] = <<o>> \o Tail(@)]

\* list::pop_front()
PopFront(l, p) == [l EXCEPT ![p] = Tail(@)]

\* The orders of a ladder, as a set of <<price, position>> places.
Places(l) == UNION {{<<p, i>> : i \in 1..Len(l[p])} : p \in DOMAIN l}

\* ------------------------------------------------------------------ orderbook.hpp

\* struct OutputRecord: the enums are stored as their printed names.
OutputRecord(ts, oid, instr, s, ot, oq_or_rem, p, oa, st, eq, ep, cpid) ==
    [timestamp |-> ts, order_id |-> oid, instrument |-> instr,
     side |-> sideToString(s), type |-> orderTypeToString(ot),
     quantity |-> oq_or_rem, price |-> p,
     action |-> orderActionToString(oa), status |-> orderStatusToString(st),
     executed_quantity |-> eq, execution_price |-> ep, counterparty_id |-> cpid]

\* ------------------------------------------------------------------ orderbook.cpp
\* The functions below thread a context record b through the code of one
\* call of processSingleOrder:
\*   b.instrument_name_, b.bids, b.asks, b.ids_traded_this_event_   the book's fields
\*   b.out      the strings pushed to output_log_queue_ by this call, in order
\*   b.trades   history: one entry per call of recordMatchAndCreateOutput
\*   b.logged   history: for every record of b.out, the Order object it was
\*              built from, as it was when the record was built
\*   b.objs     history: per order id, quantity and cumulative executed quantity
\*              of the Order object of that id as the code last wrote it
\*   b.pushes   history: number of push_back calls on a level so far; every
\*              resting order carries the number of its own push_back in .seq

QuantityForOutputColumnAlt(order, status_to_log) ==
    IF status_to_log \in {"PENDING", "REJECTED"} THEN order.quantity
    ELSE order.remaining_quantity
QuantityForOutputColumn(order, status_to_log) ==
    IF status_to_log \in {"PENDING", "REJECTED"} THEN order.quantity
    ELSE IF status_to_log = "PARTIALLY_EXECUTED" THEN order.remaining_quantity
    ELSE 0

addInitialOutputRecord(b, order_state_for_log, status_to_log, executed_qty_this_event, exec_price, counterparty, event_timestamp) ==
    LET price_for_output_column ==
            IF status_to_log = "CANCELED" THEN 0 ELSE order_state_for_log.price
        outputrec == OutputRecord(event_timestamp, order_state_for_log.order_id,
                         b.instrument_name_, order_state_for_log.side,
                         order_state_for_log.type,
                         QuantityForOutputColumn(order_state_for_log, status_to_log),
                         price_for_output_column, order_state_for_log.action,
                         status_to_log, executed_qty_this_event, exec_price, counterparty)
    IN  [b EXCEPT !.out = Append(@, outputrec),
                  !.logged = Append(@, order_state_for_log)]

\* History: the Order object of o.order_id now holds o's quantities.
Wrote(objs, o) ==
    [objs EXCEPT ![o.order_id] =
        [quantity |-> o.quantity,
         cumulative_executed_quantity |-> o.cumulative_executed_quantity]]

\* Lines 62-65 and 68-70: one participant's quantities and status after a fill.
\* The subtraction cannot wrap: matched_qty is a minimum that includes
\* order.remaining_quantity.
ApplyFillAlt(order, matched_qty) ==
    LET o1 == [order EXCEPT !.remaining_quantity = @ - matched_qty]
    IN  [o1 EXCEPT !.status = IF o1.remaining_quantity = 0
                                 THEN "EXECUTED" ELSE "PARTIALLY_EXECUTED"]
ApplyFill(order, matched_qty) ==
    LET o1 == [order EXCEPT !.remaining_quantity = @ - matched_qty,
                            !.cumulative_executed_quantity = @ + matched_qty]
    IN  [o1 EXCEPT !.status = IF o1.remaining_quantity = 0
                                 THEN "EXECUTED" ELSE "PARTIALLY_EXECUTED"]

\* Lines 76-118: the two records of a match, the aggressive order's first.
MatchRecordsAlt(instr, agg, pas, matched_qty, match_price, event_timestamp) ==
    << OutputRecord(event_timestamp, agg.order_id, instr, agg.side, agg.type,
                    IF agg.status = "EXECUTED" THEN 0 ELSE agg.remaining_quantity,
                    agg.price, agg.action, agg.status, matched_qty, match_price,
                    pas.order_id) >>
MatchRecords(instr, agg, pas, matched_qty, match_price, event_timestamp) ==
    << OutputRecord(event_timestamp, agg.order_id, instr, agg.side, agg.type,
                    IF agg.status = "EXECUTED" THEN 0 ELSE agg.remaining_quantity,
                    agg.price, agg.action, agg.status, matched_qty, match_price,
                    pas.order_id),
       OutputRecord(event_timestamp, pas.order_id, instr, pas.side, pas.type,
                    IF pas.status = "EXECUTED" THEN 0 ELSE pas.remaining_quantity,
                    pas.price, pas.action, pas.status, matched_qty, match_price,
                    agg.order_id) >>

\* Lines 72-118 of recordMatchAndCreateOutput, agg and pas being the two
\* orders after lines 62-70.  Returns the context and the two orders as the
\* call leaves them (the code mutates them through references).
RecordMatched(b, aggressive_order, passive_order, agg, pas, matched_qty, match_price, event_timestamp) ==
    [b |-> [b EXCEPT
              !.ids_traded_this_event_ = @ \cup {agg.order_id, pas.order_id},
              !.out = @ \o MatchRecords(b.instrument_name_, agg, pas, matched_qty,
                                        match_price, event_timestamp),
              !.trades = Append(@, [at |-> Len(b.out) + 1,
                                    aggressive |-> aggressive_order,
                                    passive |-> passive_order,
                                    qty |-> matched_qty, price |-> match_price,
                                    bids |-> b.bids, asks |-> b.asks]),
              !.logged = @ \o <<agg, pas>>,
              !.objs = Wrote(Wrote(@, agg), pas)],
     aggressive |-> agg,
     passive |-> pas]

\* Lines 58-120.
recordMatchAndCreateOutput(b, aggressive_order, passive_order, matched_qty, match_price, event_timestamp) ==
    RecordMatched(b, aggressive_order, passive_order,
                  ApplyFill(aggressive_order, matched_qty),
                  ApplyFill(passive_order, matched_qty),
                  matched_qty, match_price, event_timestamp)

\* Lines 464-473.
MatchPriceAlt(buy_order, sell_order, best_bid_price) ==
    IF buy_order.timestamp < sell_order.timestamp THEN sell_order.price
    ELSE IF sell_order.timestamp < buy_order.timestamp THEN buy_order.price
    ELSE best_bid_price
MatchPrice(buy_order, sell_order, best_bid_price) ==
    IF buy_order.timestamp < sell_order.timestamp THEN buy_order.price
    ELSE IF sell_order.timestamp < buy_order.timestamp THEN sell_order.price
    ELSE best_bid_price

\* Line 446: the loop stops when the best bid is below the best ask.
CannotMatchNever(best_bid_price, best_ask_price) == FALSE
CannotMatchAlt(best_bid_price, best_ask_price) == best_bid_price <= best_ask_price
CannotMatch(best_bid_price, best_ask_price) == best_bid_price < best_ask_price

\* Lines 186-191 (and 482-494): write the fill through to the level's front,
\* pop it when nothing remains, erase the level when it became empty.
SettleFrontAlt(l, p, o) ==
    IF o.remaining_quantity = 0
    THEN IF Len(l[p]) = 1 THEN Erase(l, p) ELSE PopFront(l, p)
    ELSE [l EXCEPT ![p] = Tail(@) \o <<o>>]
SettleFront(l, p, o) ==
    IF o.remaining_quantity = 0
    THEN IF Len(l[p]) = 1 THEN Erase(l, p) ELSE PopFront(l, p)
    ELSE SetFront(l, p, o)

\* Lines 459-479: one trade between the fronts of the two best levels.
MatchFrontsAlt(b, buy_order, sell_order, best_bid_price, event_timestamp) ==
    recordMatchAndCreateOutput(b, sell_order, buy_order,
        Min(buy_order.remaining_quantity, sell_order.remaining_quantity),
        MatchPrice(buy_order, sell_order, best_bid_price), event_timestamp)
MatchFronts(b, buy_order, sell_order, best_bid_price, event_timestamp) ==
    recordMatchAndCreateOutput(b, buy_order, sell_order,
        Min(buy_order.remaining_quantity, sell_order.remaining_quantity),
        MatchPrice(buy_order, sell_order, best_bid_price), event_timestamp)

\* Lines 482-494, r being what recordMatchAndCreateOutput returned.
AfterMatch(r, best_bid_price, best_ask_price) ==
    [r.b EXCEPT !.bids = SettleFront(@, best_bid_price, r.aggressive),
                !.asks = SettleFront(@, best_ask_price, r.passive)]

\* Lines 435-496.
RECURSIVE matchOrders(_, _)
MatchAt(b, best_bid_price, best_ask_price, event_timestamp) ==
    IF CannotMatch(best_bid_price, best_ask_price) THEN b
    ELSE IF Len(b.bids[best_bid_price]) = 0
    THEN matchOrders([b EXCEPT !.bids = Erase(@, best_bid_price)], event_timestamp)
    ELSE IF Len(b.asks[best_ask_price]) = 0
    THEN matchOrders([b EXCEPT !.asks = Erase(@, best_ask_price)], event_timestamp)
    ELSE matchOrders(
             AfterMatch(MatchFronts(b, Front(b.bids[best_bid_price]),
                                    Front(b.asks[best_ask_price]),
                                    best_bid_price, event_timestamp),
                        best_bid_price, best_ask_price),
             event_timestamp)

matchOrders(b, event_timestamp) ==
    IF LadderEmpty(b.bids) \/ LadderEmpty(b.asks) THEN b
    ELSE MatchAt(b, BidsBegin(b.bids), AsksBegin(b.asks), event_timestamp)

\* Lines 169-193, 197-219, 349-357, 359-367: the sweep of a MARKET order over
\* the opposing ladder opp ("asks" for a BUY, "bids" otherwise).  Returns the
\* context and the swept order.
RECURSIVE marketSweep(_, _, _)

\* Lines 186-192: r is what recordMatchAndCreateOutput returned.
AfterSweepMatch(r, opp, best, event_timestamp) ==
    IF r.aggressive.remaining_quantity = 0
    THEN [b |-> [r.b EXCEPT ![opp] = SettleFront(@, best, r.passive)],
          order |-> r.aggressive]
    ELSE marketSweep([r.b EXCEPT ![opp] = SettleFront(@, best, r.passive)],
                     r.aggressive, event_timestamp)

\* Lines 177-183: the front order of the best opposing level is the resting party.
SweepFrontAlt(b, order, resting, opp, best, event_timestamp) ==
    AfterSweepMatch(
        recordMatchAndCreateOutput(b, order, resting,
            Min(1, Min(order.remaining_quantity, resting.remaining_quantity)),
            resting.price, event_timestamp),
        opp, best, event_timestamp)
SweepFront(b, order, resting, opp, best, event_timestamp) ==
    AfterSweepMatch(
        recordMatchAndCreateOutput(b, order, resting,
            Min(order.remaining_quantity, resting.remaining_quantity),
            resting.price, event_timestamp),
        opp, best, event_timestamp)

SweepAt(b, order, opp, best, event_timestamp) ==
    IF Len(b[opp][best]) = 0
    THEN marketSweep([b EXCEPT ![opp] = Erase(@, best)], order, event_timestamp)
    ELSE SweepFront(b, order, Front(b[opp][best]), opp, best, event_timestamp)

marketSweep(b, order, event_timestamp) ==
    IF order.side = "BUY"
    THEN IF order.remaining_quantity > 0 /\ ~LadderEmpty(b.asks)
         THEN SweepAt(b, order, "asks", AsksBegin(b.asks), event_timestamp)
         ELSE [b |-> b, order |-> order]
    ELSE IF order.remaining_quantity > 0 /\ ~LadderEmpty(b.bids)
         THEN SweepAt(b, order, "bids", BidsBegin(b.bids), event_timestamp)
         ELSE [b |-> b, order |-> order]

\* bids_[price].push_back(order) / asks_[price].push_back(order): lines 151-157
\* and 314-318.  Any side other than BUY goes to asks_.
InsertAlt(b, order) ==
    IF order.side = "BUY"
    THEN [b EXCEPT !.asks = PushBack(@, order.price, [order EXCEPT !.seq = b.pushes + 1]),
                   !.pushes = @ + 1]
    ELSE [b EXCEPT !.bids = PushBack(@, order.price, [order EXCEPT !.seq = b.pushes + 1]),
                   !.pushes = @ + 1]
Insert(b, order) ==
    IF order.side = "BUY"
    THEN [b EXCEPT !.bids = PushBack(@, order.price, [order EXCEPT !.seq = b.pushes + 1]),
                   !.pushes = @ + 1]
    ELSE [b EXCEPT !.asks = PushBack(@, order.price, [order EXCEPT !.seq = b.pushes + 1]),
                   !.pushes = @ + 1]

\* Lines 241-251 (and 382-392): position of the first order of the list with
\* the target id, 0 when there is none.
FindInList(order_list, target_order_id) ==
    IF \E i \in 1..Len(order_list) : order_list[i].order_id = target_order_id
    THEN SetMin({i \in 1..Len(order_list) : order_list[i].order_id = target_order_id})
    ELSE 0

\* list::erase(it)
EraseAtAlt(order_list, i) == Tail(order_list)
EraseAt(order_list, i) ==
    SubSeq(order_list, 1, i - 1) \o SubSeq(order_list, i + 1, Len(order_list))

\* The level found holds the order at position i: copy it, erase it, and erase
\* the level if it became empty (lines 245-246 and 257-265).
RemoveAtAlt(l, p, i) == [found |-> TRUE, copy |-> l[p][i], ladder |-> l]
RemoveAt(l, p, i) ==
    [found |-> TRUE, copy |-> l[p][i],
     ladder |-> IF Len(l[p]) = 1 THEN Erase(l, p)
                ELSE [l EXCEPT ![p] = EraseAt(@, i)]]

\* Lines 254-265 / 269-280 (and 394-403 / 406-415): scan one ladder in map
\* order (bids from the highest price, asks from the lowest) for the id.
LevelsWith(l, target_order_id) ==
    {p \in DOMAIN l : FindInList(l[p], target_order_id) # 0}

FindAndRemove(l, isBids, target_order_id) ==
    IF LevelsWith(l, target_order_id) = {} THEN [found |-> FALSE, ladder |-> l]
    ELSE IF isBids
    THEN RemoveAt(l, SetMax(LevelsWith(l, target_order_id)),
                  FindInList(l[SetMax(LevelsWith(l, target_order_id))], target_order_id))
    ELSE RemoveAt(l, SetMin(LevelsWith(l, target_order_id)),
                  FindInList(l[SetMin(LevelsWith(l, target_order_id))], target_order_id))

\* Lines 254-281 (and 394-416): bids first, asks only if not found in bids.
FoundIn(b, side, f) ==
    IF f.found THEN [found |-> TRUE, copy |-> f.copy, b |-> [b EXCEPT ![side] = f.ladder]]
    ELSE [found |-> FALSE, b |-> b]

FindAndRemoveFromBook(b, target_order_id) ==
    IF LevelsWith(b.bids, target_order_id) # {}
    THEN FoundIn(b, "bids", FindAndRemove(b.bids, TRUE, target_order_id))
    ELSE FoundIn(b, "asks", FindAndRemove(b.asks, FALSE, target_order_id))

\* Lines 222-225 and 369-371: a MARKET order that filled nothing is rejected.
MarketRejectedAlt(order, cum_before, initial_qty) == initial_qty > 0
MarketRejected(order, cum_before, initial_qty) ==
    order.cumulative_executed_quantity = cum_before /\ initial_qty > 0

\* s is what the sweep returned.
RejectIfUnfilled(s, cum_before, initial_qty, ts) ==
    IF MarketRejected(s.order, cum_before, initial_qty)
    THEN addInitialOutputRecord(s.b, s.order, "REJECTED", 0, 0, 0, ts)
    ELSE s.b

\* Lines 147-226.
ProcessNew(b, order_to_process, ts) ==
    IF order_to_process.type = "LIMIT"
    THEN matchOrders(
             addInitialOutputRecord(Insert(b, order_to_process), order_to_process,
                                    "PENDING", 0, 0, 0, ts),
             ts)
    ELSE IF order_to_process.type = "MARKET"
    THEN RejectIfUnfilled(marketSweep(b, order_to_process, ts), 0,
                          order_to_process.remaining_quantity, ts)
    ELSE b

\* Lines 290-295.
ModifiedOrderSide(existing_order_copy, incoming, ts) ==
    [existing_order_copy EXCEPT
        !.timestamp = ts,
        !.side = incoming.side,
        !.price = incoming.price,
        !.quantity = incoming.quantity,
        !.action = "MODIFY",
        !.type = incoming.type]
ModifiedOrderAlt(existing_order_copy, incoming, ts) ==
    [existing_order_copy EXCEPT
        !.timestamp = ts,
        !.price = incoming.price,
        !.quantity = incoming.quantity,
        !.action = "MODIFY",
        !.type = incoming.type,
        !.cumulative_executed_quantity = 0]
ModifiedOrder(existing_order_copy, incoming, ts) ==
    [existing_order_copy EXCEPT
        !.timestamp = ts,
        !.price = incoming.price,
        !.quantity = incoming.quantity,
        !.action = "MODIFY",
        !.type = incoming.type]

\* Line 298: the new quantity leaves nothing to execute.
NothingLeftAlt(modified_order) == modified_order.quantity = 0
NothingLeft(modified_order) ==
    modified_order.quantity <= modified_order.cumulative_executed_quantity

\* Lines 331-341, m being the context after matchOrders: report the order if it
\* rests at its price and took no part in a trade of this event.
ReportIfRestingAlt(m, order_to_readd, ladder, ts) ==
    IF /\ order_to_readd.price \in DOMAIN ladder
       /\ FindInList(ladder[order_to_readd.price], order_to_readd.order_id) # 0
    THEN addInitialOutputRecord(m,
             ladder[order_to_readd.price][
                 FindInList(ladder[order_to_readd.price], order_to_readd.order_id)],
             ladder[order_to_readd.price][
                 FindInList(ladder[order_to_readd.price], order_to_readd.order_id)].status,
             0, 0, 0, ts)
    ELSE m
ReportIfResting(m, order_to_readd, ladder, ts) ==
    IF /\ order_to_readd.order_id \notin m.ids_traded_this_event_
       /\ order_to_readd.price \in DOMAIN ladder
       /\ FindInList(ladder[order_to_readd.price], order_to_readd.order_id) # 0
    THEN addInitialOutputRecord(m,
             ladder[order_to_readd.price][
                 FindInList(ladder[order_to_readd.price], order_to_readd.order_id)],
             ladder[order_to_readd.price][
                 FindInList(ladder[order_to_readd.price], order_to_readd.order_id)].status,
             0, 0, 0, ts)
    ELSE m

\* Lines 333-337: the ladder searched for the final resting order.
FinalLadder(m, order_to_readd) ==
    IF order_to_readd.side = "BUY" THEN m.bids
    ELSE IF order_to_readd.side = "SELL" THEN m.asks
    ELSE EmptyLadder

Matched(m, order_to_readd, ts) ==
    ReportIfResting(m, order_to_readd, FinalLadder(m, order_to_readd), ts)

\* Lines 313-341: re-insert, match, and report the order if it rests untouched.
ModifyLimit(b, order_to_readd, ts) ==
    Matched(matchOrders(Insert(b, order_to_readd), ts), order_to_readd, ts)

\* Lines 344-372.
ModifyMarketAlt(b, order_to_readd, ts) == ModifyLimit(b, order_to_readd, ts)
ModifyMarket(b, order_to_readd, ts) ==
    RejectIfUnfilled(marketSweep(b, order_to_readd, ts),
                     order_to_readd.cumulative_executed_quantity,
                     order_to_readd.remaining_quantity, ts)

\* Lines 310-372.
Readd(b, order_to_readd, ts) ==
    IF order_to_readd.type = "LIMIT"
    THEN ModifyLimit([b EXCEPT !.objs = Wrote(@, order_to_readd)], order_to_readd, ts)
    ELSE IF order_to_readd.type = "MARKET"
    THEN ModifyMarket([b EXCEPT !.objs = Wrote(@, order_to_readd)], order_to_readd, ts)
    ELSE [b EXCEPT !.objs = Wrote(@, order_to_readd)]

\* Lines 299-304: the order is done; report it as EXECUTED, or as CANCELED when
\* nothing was executed and the new quantity is 0.
Finish(b, done, ts) ==
    addInitialOutputRecord([b EXCEPT !.objs = Wrote(@, done)], done, done.status,
                           0, 0, 0, ts)

\* Lines 298-373.
ApplyModify(b, modified_order, ts) ==
    IF NothingLeft(modified_order)
    THEN Finish(b,
                [modified_order EXCEPT
                    !.remaining_quantity = 0,
                    !.status = IF modified_order.cumulative_executed_quantity = 0
                                  /\ modified_order.quantity = 0
                               THEN "CANCELED" ELSE "EXECUTED"],
                ts)
    ELSE Readd(b,
               [modified_order EXCEPT
                   !.remaining_quantity = modified_order.quantity
                       - modified_order.cumulative_executed_quantity,
                   !.status = "PENDING"],
               ts)

\* Lines 284-373, f being the result of the search.
ModifyFound(b, f, incoming, ts) ==
    IF ~f.found
    THEN addInitialOutputRecord(b, incoming, "REJECTED", 0, 0, 0, ts)
    ELSE ApplyModify(f.b, ModifiedOrder(f.copy, incoming, ts), ts)

\* Lines 229-373.
ProcessModify(b, incoming, ts) ==
    ModifyFound(b, FindAndRemoveFromBook(b, incoming.order_id), incoming, ts)

\* Lines 418-425.
Cancelled(b, order_being_cancelled_data, ts) ==
    addInitialOutputRecord([b EXCEPT !.objs = Wrote(@, order_being_cancelled_data)],
                           order_being_cancelled_data, "CANCELED", 0, 0, 0, ts)

CancelFoundAlt(b, f, incoming, ts) ==
    IF f.found
    THEN Cancelled(f.b, [f.copy EXCEPT !.timestamp = ts, !.action = "CANCEL"], ts)
    ELSE addInitialOutputRecord(b, incoming, "CANCELED", 0, 0, 0, ts)
CancelFound(b, f, incoming, ts) ==
    IF f.found
    THEN Cancelled(f.b, [f.copy EXCEPT !.timestamp = ts, !.action = "CANCEL"], ts)
    ELSE addInitialOutputRecord(b, incoming, "REJECTED", 0, 0, 0, ts)

\* Lines 375-425.
ProcessCancel(b, incoming, ts) ==
    CancelFound(b, FindAndRemoveFromBook(b, incoming.order_id), incoming, ts)

\* Lines 136-430: the order's instrument is the book's.
Dispatch(b, incoming, ts) ==
    IF incoming.action = "NEW"
    THEN ProcessNew([b EXCEPT !.ids_traded_this_event_ = {},
                              !.objs = Wrote(@, incoming)], incoming, ts)
    ELSE IF incoming.action = "MODIFY"
    THEN ProcessModify([b EXCEPT !.ids_traded_this_event_ = {}], incoming, ts)
    ELSE IF incoming.action = "CANCEL"
    THEN ProcessCancel([b EXCEPT !.ids_traded_this_event_ = {}], incoming, ts)
    ELSE addInitialOutputRecord([b EXCEPT !.ids_traded_this_event_ = {}], incoming,
                                "REJECTED", 0, 0, 0, ts)

\* Lines 136-141.
InitNew(incoming_order_request) ==
    IF incoming_order_request.action = "NEW"
    THEN [incoming_order_request EXCEPT
             !.remaining_quantity = incoming_order_request.quantity,
             !.cumulative_executed_quantity = 0,
             !.status = "PENDING"]
    ELSE incoming_order_request

\* The context at the start of a call: the book's fields, nothing pushed yet.
Context(book) ==
    [instrument_name_ |-> book.instrument_name_,
     bids |-> book.bids, asks |-> book.asks,
     ids_traded_this_event_ |-> book.ids_traded_this_event_,
     objs |-> book.objs, pushes |-> book.pushes,
     out |-> << >>, trades |-> << >>, logged |-> << >>]

\* Lines 123-431.  book holds the fields that outlive the call; the result is
\* the context at return, out and trades being those of this call.
processSingleOrder(book, incoming_order_request) ==
    IF incoming_order_request.instrument # book.instrument_name_
    THEN addInitialOutputRecord(Context(book), incoming_order_request, "REJECTED",
                                0, 0, 0, incoming_order_request.timestamp)
    ELSE Dispatch(Context(book), InitNew(incoming_order_request),
                  incoming_order_request.timestamp)

\* ------------------------------------------------------------------ one book

VARIABLES
    bids_, asks_, ids_traded_this_event_,   \* the fields of class OrderBook
    event,          \* the Order the last call of processSingleOrder was given
    out,            \* the records that call pushed to the output queue, in order
    trades,         \* history: the matches of that call
    logged,         \* history: the Order objects the records of out were built from
    objs, pushes,   \* history threaded through processSingleOrder (see above)
    stamped,        \* history: for the push_back number of every order that rests or
                    \* traded in the last call, the timestamp of the event whose
                    \* call made that push_back
    executed_sum,   \* history: per order id, sum of executed_quantity over all records
    ids_used,       \* the events so far named the order ids 1..ids_used
    new_ids,        \* history: the ids some NEW event of this instrument carried
    reused_ids,     \* history: the ids two or more such NEW events carried
    life,           \* history: per order id, where the order of that id stands
                    \* ("unused", "live", "terminal", or "ambiguous" once a NEW
                    \* event carried the id of an order not yet terminal)
    nEvents         \* number of events processed

bookVars == <<bids_, asks_, ids_traded_this_event_, event, out, trades, logged, objs,
              pushes, stamped, executed_sum, ids_used, new_ids, reused_ids, life,
              nEvents>>

\* The pipeline of main.cpp.
VARIABLES
    input_file,         \* the orders parseCsvLineToOrder yields, in file order
    reader_pc, reader_i,            \* read_fromfile_thread; reader_i: next order to push
    order_queue,                    \* ThreadSafeQueue<Order> order_queue
    is_done_reading,
    router_pc, order_request,       \* launch_work_thread and its local order_request
    order_books,        \* std::map: instrument -> the OrderBook's fields
    worker_pc, worker_out,  \* per book: processing_thread_, and the records its
                            \* current processSingleOrder call has still to push
    is_done_launching_jobs,
    stopper_pc, stopper_at,         \* read_orders_thread; stopper_at: index of its loop
    is_done_processing_orders,
    output_log_queue,
    writer_pc, output_file,         \* the writer loop of main and the lines written
    forwarded,          \* history: the orders passed to addOrder, in order
    processed,          \* history: per instrument, the orders given to processSingleOrder
    emitted             \* history: per instrument, the records pushed by the book

pipeVars == <<input_file, reader_pc, reader_i, order_queue, is_done_reading,
              router_pc, order_request, order_books, worker_pc, worker_out,
              is_done_launching_jobs, stopper_pc, stopper_at,
              is_done_processing_orders, output_log_queue, writer_pc, output_file,
              forwarded, processed, emitted>>

\* One ThreadSafeQueue used by several threads at once.
VARIABLES
    data_queue_,        \* the std::queue of the ThreadSafeQueue
    caller_pc,          \* per thread: the call it is in ("idle": none)
    caller_item,        \* per thread: the argument of its push
    values_used,        \* the pushes so far carried the values 1..values_used
    pushed,             \* history: the pushes in the order they took effect
    returned            \* history: the successful pops in the order they took effect

queueVars == <<data_queue_, caller_pc, caller_item, values_used, pushed, returned>>

vars == <<bookVars, pipeVars, queueVars>>

BookInstrument == "X"
OtherInstrument == "Y"
NoEvent == [action |-> "NONE"]

\* OrderBook::OrderBook: both ladders empty.
BookInit ==
    /\ bids_ = EmptyLadder
    /\ asks_ = EmptyLadder
    /\ ids_traded_this_event_ = {}
    /\ event = NoEvent
    /\ out = << >>
    /\ trades = << >>
    /\ logged = << >>
    /\ objs = [i \in OrderIds |-> [quantity |-> 0, cumulative_executed_quantity |-> 0]]
    /\ pushes = 0
    /\ stamped = << >>
    /\ executed_sum = [i \in OrderIds |-> 0]
    /\ ids_used = 0
    /\ new_ids = {}
    /\ reused_ids = {}
    /\ life = [i \in OrderIds |-> "unused"]
    /\ nEvents = 0

RECURSIVE SumExecuted(_, _)
SumExecuted(records, id) ==
    IF records = << >> THEN 0
    ELSE (IF Head(records).order_id = id THEN Head(records).executed_quantity ELSE 0)
         + SumExecuted(Tail(records), id)

\* The code compares order ids for equality only, so the events name ids in
\* the order of their first use: an event names a used id or the next unused one.
NextIds == {i \in OrderIds : i <= ids_used + 1}

\* The push_back numbers of the orders of a ladder, and of the participants
\* of the matches ts that were taken from a level.
SeqsOf(l) == {l[pp[1]][pp[2]].seq : pp \in Places(l)}
TradeSeqs(ts) ==
    {ts[k].aggressive.seq : k \in 1..Len(ts)} \cup {ts[k].passive.seq : k \in 1..Len(ts)}

\* Where the order of id i stands once the call is given the event order,
\* and once the call has pushed the given records: a NEW event of this
\* book starts a life, and a record with status EXECUTED or CANCELED ends it.
Started(was, i, order) ==
    IF order.action = "NEW" /\ order.instrument = BookInstrument /\ order.order_id = i
    THEN IF was \in {"unused", "terminal"} THEN "live" ELSE "ambiguous"
    ELSE was
LifeAfter(was, i, records) ==
    IF /\ was # "ambiguous"
       /\ \E j \in 1..Len(records) :
             records[j].order_id = i /\ records[j].status \in {"EXECUTED", "CANCELED"}
    THEN "terminal"
    ELSE was

\* The book's fields and history after a call that returned context r.
Commit(r) ==
    /\ bids_' = r.bids
    /\ asks_' = r.asks
    /\ ids_traded_this_event_' = r.ids_traded_this_event_
    /\ out' = r.out
    /\ trades' = r.trades
    /\ logged' = r.logged
    /\ objs' = r.objs
    /\ pushes' = r.pushes
    /\ executed_sum' = [i \in OrderIds |-> executed_sum[i] + SumExecuted(r.out, i)]

\* The worker's call processSingleOrder(order) on this book (orderbook.hpp:72).
Feed(order) ==
    /\ nEvents < MaxEvents
    /\ Commit(processSingleOrder(
                  [instrument_name_ |-> BookInstrument, bids |-> bids_, asks |-> asks_,
                   ids_traded_this_event_ |-> ids_traded_this_event_,
                   objs |-> objs, pushes |-> pushes],
                  order))
    /\ UNCHANGED <<pipeVars, queueVars>>
    /\ stamped' = [i \in (SeqsOf(bids_') \cup SeqsOf(asks_') \cup TradeSeqs(trades')) \ {0} |->
                       IF i > pushes THEN order.timestamp ELSE stamped[i]]
    /\ event' = order
    /\ nEvents' = nEvents + 1
    /\ ids_used' = IF order.order_id > ids_used THEN order.order_id ELSE ids_used
    /\ new_ids' = IF order.action = "NEW" /\ order.instrument = BookInstrument
                  THEN new_ids \cup {order.order_id} ELSE new_ids
    /\ reused_ids' = IF /\ order.action = "NEW" /\ order.instrument = BookInstrument
                        /\ order.order_id \in new_ids
                     THEN reused_ids \cup {order.order_id} ELSE reused_ids
    /\ life' = [i \in OrderIds |-> LifeAfter(Started(life[i], i, order), i, out')]

NewLimit ==
    \E ts \in Timestamps, id \in NextIds, s \in Side, q \in Qtys, p \in Prices :
        Feed(Order(ts, id, BookInstrument, s, "LIMIT", q, p, "NEW"))

NewMarket ==
    \E ts \in Timestamps, id \in NextIds, s \in Side, q \in Qtys :
        Feed(Order(ts, id, BookInstrument, s, "MARKET", q, 0, "NEW"))

Modify ==
    \E ts \in Timestamps, id \in NextIds, s \in Side, t \in OrderType,
       q \in Qtys, p \in Prices :
        /\ t = "MARKET" => p = 1
        /\ Feed(Order(ts, id, BookInstrument, s, t, q, p, "MODIFY"))

Cancel ==
    \E ts \in Timestamps, id \in NextIds, s \in Side :
        Feed(Order(ts, id, BookInstrument, s, "LIMIT", MaxQty, MaxPrice, "CANCEL"))

\* An order of another instrument handed to this book (lines 127-133).
WrongInstrument ==
    \E ts \in Timestamps, id \in NextIds, a \in OrderAction :
        Feed(Order(ts, id, OtherInstrument, "BUY", "LIMIT", MaxQty, MaxPrice, a))

BookNext == NewLimit \/ NewMarket \/ Modify \/ Cancel \/ WrongInstrument

\* ------------------------------------------------------------------ thread_safe_queue.hpp
\* Every method holds mtx_ for its whole body, so each call is one atomic step.

\* push(item)
QueuePushAlt(q, item) == <<item>> \o q
QueuePush(q, item) == Append(q, item)

\* pop(): the caller waits until the queue is not empty (the callers' guard).
QueuePopAlt(q) == [value |-> Head(q), queue |-> q]
QueuePop(q) == [value |-> Head(q), queue |-> Tail(q)]

\* try_pop(item)
QueueTryPopAlt(q) ==
    IF Len(q) = 0 THEN [ok |-> FALSE, queue |-> q]
    ELSE [ok |-> TRUE, value |-> q[Len(q)], queue |-> SubSeq(q, 1, Len(q) - 1)]
QueueTryPop(q) ==
    IF Len(q) = 0 THEN [ok |-> FALSE, queue |-> q]
    ELSE [ok |-> TRUE, value |-> Head(q), queue |-> Tail(q)]

QueueEmpty(q) == Len(q) = 0
QueueSize(q) == Len(q)

\* ------------------------------------------------------------------ main.cpp: the pipeline

MaxOrders == 3      \* orders in the input file
MaxQueue  == 2      \* max_queue_size_allowed (100000 in main.cpp:67), scaled down

\* Instrument names in the key order of std::map<std::string, OrderBook>.
Instruments == <<"X", "Y">>
InstrumentSet == {Instruments[k] : k \in 1..Len(Instruments)}

\* The k-th order of an input file: NEW LIMIT, quantity 1 at price 1, buys and
\* sells alternating, for any instrument.
InputOrder(k, instr) ==
    Order(k, k, instr, IF k % 2 = 1 THEN "BUY" ELSE "SELL", "LIMIT", 1, 1, "NEW")

InputFiles ==
    {[k \in 1..MaxOrders |-> InputOrder(k, f[k])] : f \in [1..MaxOrders -> InstrumentSet]}

PipeInit ==
    /\ input_file \in InputFiles
    /\ reader_pc = "check" /\ reader_i = 1
    /\ order_queue = << >>
    /\ is_done_reading = FALSE
    /\ router_pc = "loop" /\ order_request = NoEvent
    /\ order_books = << >>
    /\ worker_pc = [i \in InstrumentSet |-> "none"]
    /\ worker_out = [i \in InstrumentSet |-> << >>]
    /\ is_done_launching_jobs = FALSE
    /\ stopper_pc = "wait" /\ stopper_at = 1
    /\ is_done_processing_orders = FALSE
    /\ output_log_queue = << >>
    /\ writer_pc = "loop" /\ output_file = << >>
    /\ forwarded = << >>
    /\ processed = [i \in InstrumentSet |-> << >>]
    /\ emitted = [i \in InstrumentSet |-> << >>]

\* The values the pipeline variables keep in the one-book specification.
PipeIdle ==
    /\ input_file = << >>
    /\ reader_pc = "done" /\ reader_i = 1
    /\ order_queue = << >>
    /\ is_done_reading = FALSE
    /\ router_pc = "done" /\ order_request = NoEvent
    /\ order_books = << >>
    /\ worker_pc = [i \in InstrumentSet |-> "none"]
    /\ worker_out = [i \in InstrumentSet |-> << >>]
    /\ is_done_launching_jobs = FALSE
    /\ stopper_pc = "done" /\ stopper_at = 1
    /\ is_done_processing_orders = FALSE
    /\ output_log_queue = << >>
    /\ writer_pc = "done" /\ output_file = << >>
    /\ forwarded = << >>
    /\ processed = [i \in InstrumentSet |-> << >>]
    /\ emitted = [i \in InstrumentSet |-> << >>]

\* ---- read_fromfile_thread (main.cpp:59-71) running readOrdersFromStream

readerVars == <<reader_pc, reader_i, order_queue, is_done_reading>>

\* order.cpp:362-365: while the queue holds max_queue_size_allowed orders, sleep.
QueueFullAlt(size) == size > MaxQueue
QueueFull(size) == size >= MaxQueue

ReaderWait ==
    /\ reader_pc = "check"
    /\ QueueFull(QueueSize(order_queue))
    /\ UNCHANGED vars

ReaderCheck ==
    /\ reader_pc = "check"
    /\ ~QueueFull(QueueSize(order_queue))
    /\ reader_pc' = "push"
    /\ UNCHANGED <<bookVars, queueVars, input_file, reader_i, order_queue, is_done_reading,
                   router_pc, order_request, order_books, worker_pc, worker_out,
                   is_done_launching_jobs, stopper_pc, stopper_at,
                   is_done_processing_orders, output_log_queue, writer_pc,
                   output_file, forwarded, processed, emitted>>

\* order.cpp:366: order_queue.push(*parsed_order_opt); at end of file the
\* function returns.
ReaderPush ==
    /\ reader_pc = "push"
    /\ order_queue' = QueuePush(order_queue, input_file[reader_i])
    /\ reader_i' = reader_i + 1
    /\ reader_pc' = IF reader_i + 1 > Len(input_file) THEN "set_done" ELSE "check"
    /\ UNCHANGED <<bookVars, queueVars, input_file, is_done_reading,
                   router_pc, order_request, order_books, worker_pc, worker_out,
                   is_done_launching_jobs, stopper_pc, stopper_at,
                   is_done_processing_orders, output_log_queue, writer_pc,
                   output_file, forwarded, processed, emitted>>

\* main.cpp:69
ReaderSetDone ==
    /\ reader_pc = "set_done"
    /\ is_done_reading' = TRUE
    /\ reader_pc' = "done"
    /\ UNCHANGED <<bookVars, queueVars, input_file, reader_i, order_queue,
                   router_pc, order_request, order_books, worker_pc, worker_out,
                   is_done_launching_jobs, stopper_pc, stopper_at,
                   is_done_processing_orders, output_log_queue, writer_pc,
                   output_file, forwarded, processed, emitted>>

\* ---- launch_work_thread (main.cpp:83-122)

\* main.cpp:89, the operand evaluated when is_done_reading was read true.
RouterQueueNotEmptyAlt(size) == FALSE
RouterQueueNotEmpty(size) == size # 0

RouterStep(pc) ==
    /\ router_pc' = pc
    /\ UNCHANGED <<bookVars, queueVars, input_file, reader_pc, reader_i, order_queue, is_done_reading,
                   order_request, order_books, worker_pc, worker_out,
                   is_done_launching_jobs, stopper_pc, stopper_at,
                   is_done_processing_orders, output_log_queue, writer_pc,
                   output_file, forwarded, processed, emitted>>

\* main.cpp:89, first operand: !is_done_reading
RouterLoopDone ==
    /\ router_pc = "loop"
    /\ RouterStep(IF ~is_done_reading THEN "body" ELSE "loop_size")

\* main.cpp:89, second operand: order_queue.size() != 0
RouterLoopSize ==
    /\ router_pc = "loop_size"
    /\ RouterStep(IF RouterQueueNotEmpty(QueueSize(order_queue)) THEN "body" ELSE "set")

\* main.cpp:91-94: sleep and continue when the queue is empty
RouterQueueIsEmptyAlt(size) == FALSE
RouterQueueIsEmpty(size) == size = 0

RouterBody ==
    /\ router_pc = "body"
    /\ RouterStep(IF RouterQueueIsEmpty(QueueSize(order_queue)) THEN "loop" ELSE "pop")

\* main.cpp:95: the blocking pop
RouterPop ==
    /\ router_pc = "pop"
    /\ ~QueueEmpty(order_queue)
    /\ order_request' = QueuePop(order_queue).value
    /\ order_queue' = QueuePop(order_queue).queue
    /\ router_pc' = "route"
    /\ UNCHANGED <<bookVars, queueVars, input_file, reader_pc, reader_i, is_done_reading,
                   order_books, worker_pc, worker_out,
                   is_done_launching_jobs, stopper_pc, stopper_at,
                   is_done_processing_orders, output_log_queue, writer_pc,
                   output_file, forwarded, processed, emitted>>

\* OrderBook::OrderBook, with the history fields processSingleOrder threads.
NewBookAlt(instrument_name) ==
    [instrument_name_ |-> Instruments[1],
     bids |-> EmptyLadder, asks |-> EmptyLadder, ids_traded_this_event_ |-> {},
     objs |-> [i \in 1..MaxOrders |->
                  [quantity |-> 0, cumulative_executed_quantity |-> 0]],
     pushes |-> 0,
     order_queue_ |-> << >>, stop_processing_ |-> FALSE]
NewBook(instrument_name) ==
    [instrument_name_ |-> instrument_name,
     bids |-> EmptyLadder, asks |-> EmptyLadder, ids_traded_this_event_ |-> {},
     objs |-> [i \in 1..MaxOrders |->
                  [quantity |-> 0, cumulative_executed_quantity |-> 0]],
     pushes |-> 0,
     order_queue_ |-> << >>, stop_processing_ |-> FALSE]

\* main.cpp:106-114: create the book of a new instrument and start its worker
RouterRoute ==
    /\ router_pc = "route"
    /\ LET instr == order_request.instrument
       IN  IF instr \notin DOMAIN order_books
           THEN /\ order_books' = [i \in DOMAIN order_books \cup {instr} |->
                                      IF i = instr THEN NewBook(instr) ELSE order_books[i]]
                /\ worker_pc' = [worker_pc EXCEPT ![instr] = "loop"]
           ELSE UNCHANGED <<order_books, worker_pc>>
    /\ router_pc' = "add"
    /\ UNCHANGED <<bookVars, queueVars, input_file, reader_pc, reader_i, order_queue, is_done_reading,
                   order_request, worker_out,
                   is_done_launching_jobs, stopper_pc, stopper_at,
                   is_done_processing_orders, output_log_queue, writer_pc,
                   output_file, forwarded, processed, emitted>>

\* main.cpp:116-117 and OrderBook::addOrder (orderbook.hpp:91-93)
RouterAdd ==
    /\ router_pc = "add"
    /\ order_books' = [order_books EXCEPT ![order_request.instrument].order_queue_ =
                          QueuePush(@, order_request)]
    /\ forwarded' = Append(forwarded, order_request)
    /\ router_pc' = "loop"
    /\ UNCHANGED <<bookVars, queueVars, input_file, reader_pc, reader_i, order_queue, is_done_reading,
                   order_request, worker_pc, worker_out,
                   is_done_launching_jobs, stopper_pc, stopper_at,
                   is_done_processing_orders, output_log_queue, writer_pc,
                   output_file, processed, emitted>>

\* main.cpp:120
RouterSetDone ==
    /\ router_pc = "set"
    /\ is_done_launching_jobs' = TRUE
    /\ router_pc' = "done"
    /\ UNCHANGED <<bookVars, queueVars, input_file, reader_pc, reader_i, order_queue, is_done_reading,
                   order_request, order_books, worker_pc, worker_out,
                   stopper_pc, stopper_at,
                   is_done_processing_orders, output_log_queue, writer_pc,
                   output_file, forwarded, processed, emitted>>

\* ---- the book's processing_thread_ (orderbook.hpp:67-78)

WorkerStep(i, pc) ==
    /\ worker_pc' = [worker_pc EXCEPT ![i] = pc]
    /\ UNCHANGED <<bookVars, queueVars, input_file, reader_pc, reader_i, order_queue, is_done_reading,
                   router_pc, order_request, order_books, worker_out,
                   is_done_launching_jobs, stopper_pc, stopper_at,
                   is_done_processing_orders, output_log_queue, writer_pc,
                   output_file, forwarded, processed, emitted>>

\* orderbook.hpp:69, first operand: !stop_processing_
WorkerLoopStop(i) ==
    /\ worker_pc[i] = "loop"
    /\ WorkerStep(i, IF ~order_books[i].stop_processing_ THEN "try_pop" ELSE "loop_empty")

\* orderbook.hpp:69, second operand: !order_queue_.empty()
WorkerInboxNotEmptyAlt(q) == FALSE
WorkerInboxNotEmpty(q) == ~QueueEmpty(q)

WorkerLoopEmpty(i) ==
    /\ worker_pc[i] = "loop_empty"
    /\ WorkerStep(i, IF WorkerInboxNotEmpty(order_books[i].order_queue_)
                     THEN "try_pop" ELSE "done")

\* orderbook.hpp:71-75: try_pop and, on success, processSingleOrder.  The book
\* is private to the worker, so the call's effect on it is taken at once; the
\* records the call pushes to the shared output queue follow one per step.
WorkerProcessed(i, got, r) ==
    /\ order_books' = [order_books EXCEPT
          ![i].order_queue_ = got.queue,
          ![i].bids = r.bids,
          ![i].asks = r.asks,
          ![i].ids_traded_this_event_ = r.ids_traded_this_event_,
          ![i].objs = r.objs,
          ![i].pushes = r.pushes]
    /\ worker_out' = [worker_out EXCEPT ![i] = r.out]
    /\ processed' = [processed EXCEPT ![i] = Append(@, got.value)]
    /\ worker_pc' = [worker_pc EXCEPT ![i] = IF r.out = << >> THEN "loop" ELSE "emit"]

WorkerPopped(i, got) ==
    IF ~got.ok
    THEN /\ worker_pc' = [worker_pc EXCEPT ![i] = "loop"]
         /\ UNCHANGED <<order_books, worker_out, processed>>
    ELSE WorkerProcessed(i, got, processSingleOrder(order_books[i], got.value))

WorkerTryPop(i) ==
    /\ worker_pc[i] = "try_pop"
    /\ WorkerPopped(i, QueueTryPop(order_books[i].order_queue_))
    /\ UNCHANGED <<bookVars, queueVars, input_file, reader_pc, reader_i, order_queue, is_done_reading,
                   router_pc, order_request,
                   is_done_launching_jobs, stopper_pc, stopper_at,
                   is_done_processing_orders, output_log_queue, writer_pc,
                   output_file, forwarded, emitted>>

\* orderbook.cpp:53 and 117-118: output_log_queue_->push(...)
WorkerEmit(i) ==
    /\ worker_pc[i] = "emit"
    /\ output_log_queue' = QueuePush(output_log_queue, Head(worker_out[i]))
    /\ emitted' = [emitted EXCEPT ![i] = Append(@, Head(worker_out[i]))]
    /\ worker_out' = [worker_out EXCEPT ![i] = Tail(@)]
    /\ worker_pc' = [worker_pc EXCEPT ![i] =
                        IF Len(worker_out[i]) = 1 THEN "loop" ELSE "emit"]
    /\ UNCHANGED <<bookVars, queueVars, input_file, reader_pc, reader_i, order_queue, is_done_reading,
                   router_pc, order_request, order_books,
                   is_done_launching_jobs, stopper_pc, stopper_at,
                   is_done_processing_orders, writer_pc,
                   output_file, forwarded, processed>>

\* ---- read_orders_thread (main.cpp:125-139)

\* main.cpp:127-129
StopperWait ==
    /\ stopper_pc = "wait"
    /\ stopper_pc' = IF is_done_launching_jobs THEN "stop" ELSE "wait"
    /\ UNCHANGED <<bookVars, queueVars, input_file, reader_pc, reader_i, order_queue, is_done_reading,
                   router_pc, order_request, order_books, worker_pc, worker_out,
                   is_done_launching_jobs, stopper_at,
                   is_done_processing_orders, output_log_queue, writer_pc,
                   output_file, forwarded, processed, emitted>>

\* main.cpp:134-135 and orderbook.hpp:85: the next book of the map, if any,
\* gets stop_processing_ = true.
StopperStop ==
    /\ stopper_pc = "stop"
    /\ IF stopper_at > Len(Instruments)
       THEN /\ stopper_pc' = "set"
            /\ UNCHANGED <<order_books, stopper_at>>
       ELSE IF Instruments[stopper_at] \notin DOMAIN order_books
       THEN /\ stopper_at' = stopper_at + 1
            /\ UNCHANGED <<order_books, stopper_pc>>
       ELSE /\ order_books' = [order_books EXCEPT
                                  ![Instruments[stopper_at]].stop_processing_ = TRUE]
            /\ stopper_pc' = "join"
            /\ UNCHANGED stopper_at
    /\ UNCHANGED <<bookVars, queueVars, input_file, reader_pc, reader_i, order_queue, is_done_reading,
                   router_pc, order_request, worker_pc, worker_out,
                   is_done_launching_jobs,
                   is_done_processing_orders, output_log_queue, writer_pc,
                   output_file, forwarded, processed, emitted>>

\* orderbook.hpp:86-88: processing_thread_.join()
StopperJoin ==
    /\ stopper_pc = "join"
    /\ worker_pc[Instruments[stopper_at]] = "done"
    /\ stopper_at' = stopper_at + 1
    /\ stopper_pc' = "stop"
    /\ UNCHANGED <<bookVars, queueVars, input_file, reader_pc, reader_i, order_queue, is_done_reading,
                   router_pc, order_request, order_books, worker_pc, worker_out,
                   is_done_launching_jobs,
                   is_done_processing_orders, output_log_queue, writer_pc,
                   output_file, forwarded, processed, emitted>>

\* main.cpp:137
StopperSetDone ==
    /\ stopper_pc = "set"
    /\ is_done_processing_orders' = TRUE
    /\ stopper_pc' = "done"
    /\ UNCHANGED <<bookVars, queueVars, input_file, reader_pc, reader_i, order_queue, is_done_reading,
                   router_pc, order_request, order_books, worker_pc, worker_out,
                   is_done_launching_jobs, stopper_at,
                   output_log_queue, writer_pc,
                   output_file, forwarded, processed, emitted>>

\* ---- the writer loop of main (main.cpp:161-168)

WriterStep(pc) ==
    /\ writer_pc' = pc
    /\ UNCHANGED <<bookVars, queueVars, input_file, reader_pc, reader_i, order_queue, is_done_reading,
                   router_pc, order_request, order_books, worker_pc, worker_out,
                   is_done_launching_jobs, stopper_pc, stopper_at,
                   is_done_processing_orders, output_log_queue,
                   output_file, forwarded, processed, emitted>>

\* main.cpp:161, first operand: !output_log_queue->empty()
WriterLoopEmpty ==
    /\ writer_pc = "loop"
    /\ WriterStep(IF ~QueueEmpty(output_log_queue) THEN "try_pop" ELSE "loop_done")

\* main.cpp:161, second operand: !is_done_processing_orders
WriterLoopDone ==
    /\ writer_pc = "loop_done"
    /\ WriterStep(IF ~is_done_processing_orders THEN "try_pop" ELSE "done")

\* main.cpp:163-167
WriterPopped(got) ==
    IF got.ok
    THEN /\ output_file' = Append(output_file, got.value)
         /\ output_log_queue' = got.queue
    ELSE UNCHANGED <<output_file, output_log_queue>>

WriterTryPop ==
    /\ writer_pc = "try_pop"
    /\ WriterPopped(QueueTryPop(output_log_queue))
    /\ writer_pc' = "loop"
    /\ UNCHANGED <<bookVars, queueVars, input_file, reader_pc, reader_i, order_queue, is_done_reading,
                   router_pc, order_request, order_books, worker_pc, worker_out,
                   is_done_launching_jobs, stopper_pc, stopper_at,
                   is_done_processing_orders, forwarded, processed, emitted>>

Reader == ReaderWait \/ ReaderCheck \/ ReaderPush \/ ReaderSetDone
Router == RouterLoopDone \/ RouterLoopSize \/ RouterBody \/ RouterPop
              \/ RouterRoute \/ RouterAdd \/ RouterSetDone
Worker == \E i \in InstrumentSet :
              WorkerLoopStop(i) \/ WorkerLoopEmpty(i) \/ WorkerTryPop(i) \/ WorkerEmit(i)
Stopper == StopperWait \/ StopperStop \/ StopperJoin \/ StopperSetDone
Writer == WriterLoopEmpty \/ WriterLoopDone \/ WriterTryPop

PipeNext == Reader \/ Router \/ Worker \/ Stopper \/ Writer

\* ------------------------------------------------------------------ one queue, many threads

MaxThreads == 3     \* threads calling the queue
MaxPushes  == 3     \* push calls in one behaviour

QueueThreads == 1..MaxThreads

\* ThreadSafeQueue(): an empty queue, no call in progress.
QueueInit ==
    /\ data_queue_ = << >>
    /\ caller_pc = [t \in QueueThreads |-> "idle"]
    /\ caller_item = [t \in QueueThreads |-> 0]
    /\ values_used = 0
    /\ pushed = << >>
    /\ returned = << >>

\* The values the queue variables keep in the other specifications.
QueueIdle == QueueInit

\* A thread calls push(item), pop() or try_pop(); the call takes effect when
\* the thread holds mtx_.
CallPush(t) ==
    /\ caller_pc[t] = "idle"
    /\ values_used < MaxPushes
    /\ caller_pc' = [caller_pc EXCEPT ![t] = "push"]
    /\ caller_item' = [caller_item EXCEPT ![t] = values_used + 1]
    /\ values_used' = values_used + 1
    /\ UNCHANGED <<bookVars, pipeVars, data_queue_, pushed, returned>>

CallPop(t) ==
    /\ caller_pc[t] = "idle"
    /\ caller_pc' = [caller_pc EXCEPT ![t] = "pop"]
    /\ UNCHANGED <<bookVars, pipeVars, data_queue_, caller_item, values_used,
                   pushed, returned>>

CallTryPop(t) ==
    /\ caller_pc[t] = "idle"
    /\ caller_pc' = [caller_pc EXCEPT ![t] = "try_pop"]
    /\ UNCHANGED <<bookVars, pipeVars, data_queue_, caller_item, values_used,
                   pushed, returned>>

\* thread_safe_queue.hpp:31-41: the body of push, under the lock_guard.
DoPush(t) ==
    /\ caller_pc[t] = "push"
    /\ data_queue_' = QueuePush(data_queue_, caller_item[t])
    /\ pushed' = Append(pushed, [value |-> caller_item[t], by |-> t])
    /\ caller_pc' = [caller_pc EXCEPT ![t] = "idle"]
    /\ UNCHANGED <<bookVars, pipeVars, caller_item, values_used, returned>>

\* thread_safe_queue.hpp:46-62: the body of pop, under the unique_lock, once
\* cond_var_.wait has seen the queue not empty.
DoPop(t) ==
    /\ caller_pc[t] = "pop"
    /\ ~QueueEmpty(data_queue_)
    /\ data_queue_' = QueuePop(data_queue_).queue
    /\ returned' = Append(returned, [value |-> QueuePop(data_queue_).value,
                                     by |-> t, call |-> "pop"])
    /\ caller_pc' = [caller_pc EXCEPT ![t] = "idle"]
    /\ UNCHANGED <<bookVars, pipeVars, caller_item, values_used, pushed>>

\* thread_safe_queue.hpp:67-75 and 79-87: the body of try_pop, under the
\* lock_guard.
TryPopped(t, got) ==
    /\ data_queue_' = got.queue
    /\ returned' = IF got.ok
                   THEN Append(returned, [value |-> got.value, by |-> t,
                                          call |-> "try_pop"])
                   ELSE returned

DoTryPop(t) ==
    /\ caller_pc[t] = "try_pop"
    /\ TryPopped(t, QueueTryPop(data_queue_))
    /\ caller_pc' = [caller_pc EXCEPT ![t] = "idle"]
    /\ UNCHANGED <<bookVars, pipeVars, caller_item, values_used, pushed>>

QueueNext ==
    \E t \in QueueThreads :
        CallPush(t) \/ CallPop(t) \/ CallTryPop(t) \/ DoPush(t) \/ DoPop(t) \/ DoTryPop(t)

\* ------------------------------------------------------------------ specifications

\* One book fed any sequence of at most MaxEvents events.
Init == BookInit /\ PipeIdle /\ QueueIdle

Spec == Init /\ [][BookNext]_vars

\* The pipeline of main.cpp on an input file of MaxOrders orders.
PipeStart == PipeInit /\ BookInit /\ QueueIdle

PipeSpec == PipeStart /\ [][PipeNext]_vars

\* One ThreadSafeQueue called by MaxThreads threads in every interleaving.
QueueStart == QueueInit /\ BookInit /\ PipeIdle

QueueSpec == QueueStart /\ [][QueueNext]_vars

\* One book's worker thread.
WorkerThread(i) ==
    WorkerLoopStop(i) \/ WorkerLoopEmpty(i) \/ WorkerTryPop(i) \/ WorkerEmit(i)

\* The worker of book i can take a step: it was started and has not left its
\* loop.  Each of its steps changes worker_pc or the output queue, so this is
\* ENABLED <<WorkerThread(i)>>_vars.
WorkerRunning(i) == worker_pc[i] \in {"loop", "loop_empty", "try_pop", "emit"}

\* WF_vars(WorkerThread(i)), with ENABLED <<WorkerThread(i)>>_vars written as
\* the state predicate WorkerRunning(i).
WorkerFair(i) == []<>(~WorkerRunning(i)) \/ []<><<WorkerThread(i)>>_vars

\* The pipeline with every thread scheduled fairly: a thread that can take a
\* step eventually takes one (std::thread on a preemptive scheduler; the
\* spin loops sleep and retry).
PipeFairSpec ==
    /\ PipeStart
    /\ [][PipeNext]_vars
    /\ WF_vars(Reader)
    /\ WF_vars(Router)
    /\ \A i \in InstrumentSet : WorkerFair(i)
    /\ WF_vars(Stopper)
    /\ WF_vars(Writer)

\* ------------------------------------------------------------------ claims: one book

AllResting == {bids_[pp[1]][pp[2]] : pp \in Places(bids_)}
                  \cup {asks_[pp[1]][pp[2]] : pp \in Places(asks_)}

\* C1: after any event, if both ladders are non-empty, the highest bid price
\* is strictly below the lowest ask price.
C1_NoCrossedBook ==
    (~LadderEmpty(bids_) /\ ~LadderEmpty(asks_))
        => SetMax(DOMAIN bids_) < SetMin(DOMAIN asks_)

\* An event that traded and left orders on both sides.
C1_Witness ==
    /\ trades # << >>
    /\ \A k \in 1..Len(trades) : trades[k].qty > 0
    /\ ~LadderEmpty(bids_) /\ ~LadderEmpty(asks_)

\* o is the first order, in insertion order, of the best level of ladder l.
RestsFirst(o, l, isBids) ==
    /\ ~LadderEmpty(l)
    /\ LET best == IF isBids THEN SetMax(DOMAIN l) ELSE SetMin(DOMAIN l)
       IN  /\ Len(l[best]) > 0
           /\ l[best][1] = o
           /\ \A i \in 2..Len(l[best]) : l[best][i].seq > o.seq

\* C2: in every trade of the matching loop the buy order is the first order of
\* the highest bid level and the sell order the first order of the lowest ask
\* level; in a MARKET sweep the resting party is the first order of the best
\* opposing level.  First means pushed into the level before every other order
\* of the level.
C2_PriceTimePriority ==
    \A k \in 1..Len(trades) :
        LET t == trades[k]
        IN  IF t.aggressive.type = "MARKET"
            THEN IF t.aggressive.side = "BUY"
                 THEN RestsFirst(t.passive, t.asks, FALSE)
                 ELSE RestsFirst(t.passive, t.bids, TRUE)
            ELSE /\ RestsFirst(t.aggressive, t.bids, TRUE)
                 /\ RestsFirst(t.passive, t.asks, FALSE)

\* A trade of the matching loop, of a positive quantity, made while the best
\* bid level holds two orders of different ids.
C2_Witness ==
    \E k \in 1..Len(trades) :
        LET t == trades[k]
            level == t.bids[SetMax(DOMAIN t.bids)]
        IN  /\ t.aggressive.type = "LIMIT"
            /\ t.qty > 0
            /\ Len(level) >= 2
            /\ level[1].order_id # level[2].order_id

\* C3: for every order id that at most one NEW event carried (the data model's
\* unique order_id), the executed_quantity fields of all records emitted for
\* the id add up to the cumulative_executed_quantity of the order.
C3_QuantityConservationSum ==
    \A id \in OrderIds \ reused_ids :
        executed_sum[id] = objs[id].cumulative_executed_quantity

\* An order filled in an earlier event and again in the last one.
C3_Witness ==
    \E id \in OrderIds \ reused_ids :
        /\ SumExecuted(out, id) > 0
        /\ executed_sum[id] > SumExecuted(out, id)

\* C4: for every order id that at most one NEW event carried, the cumulative
\* executed quantity is at most the quantity of the latest NEW or MODIFY that
\* was applied to the order.
C4_CumulativeWithinQuantity ==
    \A id \in OrderIds \ reused_ids :
        objs[id].cumulative_executed_quantity <= objs[id].quantity

TradePositions == UNION {{trades[k].at, trades[k].at + 1} : k \in 1..Len(trades)}

\* C5: every trade emits exactly two records, adjacent in the output, the
\* first for the aggressive and the second for the passive order, both with
\* the event's timestamp, the trade's quantity and price, and each naming the
\* other order as counterparty; no other record of the event carries an
\* executed quantity or a counterparty.
C5_PerMatchTwoRecords ==
    /\ \A k \in 1..Len(trades) :
          LET t == trades[k]
          IN  /\ t.at + 1 <= Len(out)
              /\ k > 1 => t.at >= trades[k - 1].at + 2
              /\ out[t.at].order_id = t.aggressive.order_id
              /\ out[t.at + 1].order_id = t.passive.order_id
              /\ out[t.at].counterparty_id = t.passive.order_id
              /\ out[t.at + 1].counterparty_id = t.aggressive.order_id
              /\ \A j \in {t.at, t.at + 1} :
                    /\ out[j].timestamp = event.timestamp
                    /\ out[j].executed_quantity = t.qty
                    /\ out[j].execution_price = t.price
    /\ \A j \in (1..Len(out)) \ TradePositions :
          /\ out[j].executed_quantity = 0
          /\ out[j].counterparty_id = 0

\* An event with two trades of positive quantities and a record that is no
\* trade, no order id having been reused.
C5_Witness ==
    /\ Len(trades) >= 2
    /\ \A k \in 1..Len(trades) : trades[k].qty > 0
    /\ Len(out) > 2 * Len(trades)
    /\ reused_ids = {}

\* C6: after any event, no order in either ladder has type MARKET.
C6_MarketDoesNotRest ==
    \A o \in AllResting : o.type # "MARKET"

\* A MODIFY that turned a resting LIMIT order into a MARKET order, which was
\* filled in part and exhausted the opposing ladder.
C6_Witness ==
    /\ event.action = "MODIFY" /\ event.type = "MARKET"
    /\ trades # << >>
    /\ \A k \in 1..Len(trades) : trades[k].qty > 0
    /\ out[Len(out)].order_id = event.order_id
    /\ out[Len(out)].status = "PARTIALLY_EXECUTED"
    /\ ~LadderEmpty(IF out[Len(out)].side = "BUY" THEN bids_ ELSE asks_)

\* C7: an event that emits a REJECTED record emits that record only.
C7_RejectionExclusive ==
    (\E j \in 1..Len(out) : out[j].status = "REJECTED") => Len(out) = 1

\* ------------------------------------------------------------------ claims: the pipeline

IsPrefix(a, b) == Len(a) <= Len(b) /\ SubSeq(b, 1, Len(a)) = a

\* The elements of sequence q that belong to instrument i, in order.
OfInstrument(q, i) ==
    LET Is(x) == x.instrument = i
    IN  SelectSeq(q, Is)

\* The orders the reader has pushed into the input queue, in push order.
Pushed == SubSeq(input_file, 1, reader_i - 1)

\* C8: for every instrument, the orders its book has processed are, in order,
\* the first ones the reader pushed for the instrument, and the records of the
\* instrument written to the output are, in order, the first ones the book
\* emitted.
C8_PerInstrumentFifo ==
    \A i \in InstrumentSet :
        /\ IsPrefix(processed[i], OfInstrument(Pushed, i))
        /\ IsPrefix(OfInstrument(output_file, i), emitted[i])

\* Two orders of one instrument processed, their records written, and records
\* of the other instrument written too.
C8_Witness ==
    \E i \in InstrumentSet :
        /\ Len(processed[i]) >= 2
        /\ Len(OfInstrument(output_file, i)) >= 3
        /\ \E j \in InstrumentSet \ {i} : Len(OfInstrument(output_file, j)) >= 1
        /\ \E k \in 1..(Len(output_file) - 1) :
              output_file[k].instrument # output_file[k + 1].instrument

\* C9: when the writer loop has exited, the output queue is empty and every
\* record a book pushed has been written.
C9_WriterLosesNoRecord ==
    writer_pc = "done" =>
        /\ QueueEmpty(output_log_queue)
        /\ \A i \in InstrumentSet : OfInstrument(output_file, i) = emitted[i]

\* The writer loop has exited.
C9_Witness == writer_pc = "done"

\* C10: a book's stop flag is set only after the reader has signalled that it
\* is done and the router has popped and forwarded every order of the input;
\* is_done_processing_orders is set only after every book has its stop flag
\* set and its worker has ended (the join returned).
C10_ShutdownOrdering ==
    /\ (\E i \in DOMAIN order_books : order_books[i].stop_processing_) =>
          /\ is_done_reading
          /\ reader_pc = "done"
          /\ QueueEmpty(order_queue)
          /\ forwarded = input_file
          /\ is_done_launching_jobs
    /\ is_done_processing_orders =>
          /\ stopper_at > Len(Instruments)
          /\ \A i \in DOMAIN order_books :
                order_books[i].stop_processing_ /\ worker_pc[i] = "done"

\* Two books were created, stopped and joined, and completion was signalled.
C10_Witness ==
    /\ is_done_processing_orders
    /\ DOMAIN order_books = InstrumentSet

\* C11: a worker that has left its loop has its stop flag set and an empty
\* inbox, and it has given processSingleOrder every order addOrder put into
\* the inbox, once each and in order; so this holds when the join of
\* stopProcessingThread returns.
C11_WorkerDrainsBeforeTerminating ==
    \A i \in DOMAIN order_books :
        worker_pc[i] = "done" =>
            /\ order_books[i].stop_processing_
            /\ order_books[i].order_queue_ = << >>
            /\ processed[i] = OfInstrument(forwarded, i)
            /\ worker_out[i] = << >>

\* stopProcessingThread has returned for a book that was given two orders.
C11_Witness ==
    \E k \in 1..Len(Instruments) :
        /\ Instruments[k] \in DOMAIN order_books
        /\ stopper_at > k
        /\ worker_pc[Instruments[k]] = "done"
        /\ Len(OfInstrument(forwarded, Instruments[k])) >= 2

\* Every thread of the pipeline has ended: the reader signalled done, the
\* router left its loop, every book's worker left its loop and was joined,
\* and the writer left its loop.
AllThreadsEnded ==
    /\ is_done_reading /\ reader_pc = "done"
    /\ router_pc = "done"
    /\ \A i \in DOMAIN order_books : worker_pc[i] = "done"
    /\ stopper_pc = "done"
    /\ writer_pc = "done"

\* C12: under fair scheduling of all threads, every run of the pipeline on a
\* finite input reaches the state where the reader has signalled done, the
\* router and every book worker have left their loops and the writer loop has
\* exited.
C12_PipelineTermination == <>AllThreadsEnded

\* All threads have ended on an input that created two books.
C12_Witness ==
    /\ AllThreadsEnded
    /\ DOMAIN order_books = InstrumentSet
    /\ Len(forwarded) = MaxOrders

\* ------------------------------------------------------------------ claims: one queue

ValuesOf(q) == [k \in 1..Len(q) |-> q[k].value]

\* C13: the values successful pop and try_pop calls returned are, in the order
\* the calls took effect, the first values pushed, in the order the pushes
\* took effect, and the other pushed values are in the queue, in that order:
\* none is dropped, none is returned twice.
C13_QueueFifoNoLossNoDuplication ==
    /\ IsPrefix(ValuesOf(returned), ValuesOf(pushed))
    /\ data_queue_ = SubSeq(ValuesOf(pushed), Len(returned) + 1, Len(pushed))

\* A pop and a try_pop by different threads returned values that different
\* threads pushed, the pushes having taken effect in another order than they
\* were called, and a value is still queued.
C13_Witness ==
    /\ \E j, k \in 1..Len(returned) :
          /\ returned[j].call = "pop" /\ returned[k].call = "try_pop"
          /\ returned[j].by # returned[k].by
    /\ \E j, k \in 1..Len(pushed) :
          /\ j < k /\ pushed[j].value > pushed[k].value
          /\ pushed[j].by # pushed[k].by
    /\ data_queue_ # << >>

\* ------------------------------------------------------------------ claims: the pipeline, continued

\* C14: the input queue never holds more than max_queue_size_allowed orders,
\* and the reader is about to push only while the queue holds fewer.
C14_InputQueueBackpressure ==
    /\ Len(order_queue) <= MaxQueue
    /\ reader_pc = "push" => Len(order_queue) < MaxQueue

\* The queue is full, the reader has an order left and waits.
C14_Witness ==
    /\ Len(order_queue) = MaxQueue
    /\ reader_pc = "check"
    /\ reader_i <= Len(input_file)

\* C15: every handoff queue is bounded: neither a book's inbox nor the output
\* queue ever holds more than the capacity (the pipeline's one configured
\* capacity, max_queue_size_allowed).
C15_HandoffQueuesBounded ==
    /\ \A i \in DOMAIN order_books : Len(order_books[i].order_queue_) <= MaxQueue
    /\ Len(output_log_queue) <= MaxQueue

\* The records a book pushes when its worker gives it the events one after
\* the other (orderbook.hpp:69-72), starting from context book; acc holds the
\* records pushed before.
RECURSIVE Replay(_, _, _)
ReplayNext(r, events, acc) == Replay(r, Tail(events), acc \o r.out)

Replay(book, events, acc) ==
    IF events = << >> THEN acc
    ELSE ReplayNext(processSingleOrder(book, Head(events)), events, acc)

\* C16: under every interleaving, and whatever the orders of the other
\* instruments are, the records a book has pushed or is pushing are those a
\* fresh book pushes when given, one after the other, the events of its
\* instrument it has received so far, in input order: the record sequence is
\* a function of the book's event sequence only.
C16_DeterministicPerBookOutput ==
    \A i \in InstrumentSet :
        emitted[i] \o worker_out[i] =
            Replay(NewBook(i),
                   SubSeq(OfInstrument(input_file, i), 1, Len(processed[i])),
                   << >>)

\* A book has pushed the records of two events, a trade among them, while
\* another book has pushed records too.
C16_Witness ==
    \E i \in InstrumentSet :
        /\ Len(emitted[i]) >= 4
        /\ \E k \in 1..Len(emitted[i]) : emitted[i][k].executed_quantity > 0
        /\ \E j \in InstrumentSet \ {i} : Len(emitted[j]) >= 1

\* ------------------------------------------------------------------ claims: one book, records

\* The quantity of the fill a record of a trade reports, and the order it
\* describes as it was before that fill.
TradeOf(j) == CHOOSE k \in 1..Len(trades) : j \in {trades[k].at, trades[k].at + 1}
FilledOrder(j) ==
    IF j = trades[TradeOf(j)].at THEN trades[TradeOf(j)].aggressive
    ELSE trades[TradeOf(j)].passive

\* C17: in every record the quantity column is the order's quantity when the
\* status is PENDING or REJECTED, what remains of the order after the fill
\* when it is PARTIALLY_EXECUTED, and 0 when it is EXECUTED or CANCELED; the
\* price column is 0 when the status is CANCELED and the order's price
\* otherwise; records with status PENDING, CANCELED or REJECTED carry
\* executed quantity 0, execution price 0 and counterparty 0.
C17_StatusDependentColumns ==
    /\ Len(logged) = Len(out)
    /\ \A j \in 1..Len(out) :
          LET rec == out[j]
              order == logged[j]
          IN  /\ rec.order_id = order.order_id
              /\ rec.status \in {"PENDING", "REJECTED", "PARTIALLY_EXECUTED",
                                 "EXECUTED", "CANCELED"}
              /\ rec.status \in {"PENDING", "REJECTED"} => rec.quantity = order.quantity
              /\ rec.status = "PARTIALLY_EXECUTED" =>
                    /\ j \in TradePositions
                    /\ rec.quantity = FilledOrder(j).remaining_quantity
                                        - trades[TradeOf(j)].qty
                    /\ rec.quantity = order.remaining_quantity
              /\ rec.status \in {"EXECUTED", "CANCELED"} => rec.quantity = 0
              /\ rec.price = IF rec.status = "CANCELED" THEN 0 ELSE order.price
              /\ j \in TradePositions => order.price = FilledOrder(j).price
              /\ rec.status \in {"PENDING", "REJECTED", "CANCELED"} =>
                    /\ j \notin TradePositions
                    /\ rec.executed_quantity = 0
                    /\ rec.execution_price = 0
                    /\ rec.counterparty_id = 0

\* A cancellation of an order that still had quantity left and a price.
C17_Witness ==
    /\ event.action = "CANCEL"
    /\ Len(out) = 1
    /\ out[1].status = "CANCELED"
    /\ logged[1].remaining_quantity > 0
    /\ logged[1].price > 0

\* A modification that rests after a partial fill: records of a trade with
\* both statuses, followed by none or by the PENDING record.
C17_WitnessFill ==
    /\ \E j \in 1..Len(out) : out[j].status = "PARTIALLY_EXECUTED" /\ out[j].quantity > 0
    /\ \E j \in 1..Len(out) : out[j].status = "EXECUTED" /\ out[j].executed_quantity > 0

\* The matches of the last call that the loop of matchOrders made: there the
\* first participant is a resting order; in a sweep it is the MARKET order.
LimitTrades == {k \in 1..Len(trades) : trades[k].aggressive.type = "LIMIT"}

\* The price the rule gives for a match of buy and sell, their timestamps
\* being those of the events that placed them in their levels.
RulePrice(buy, sell, best_bid_price) ==
    IF stamped[buy.seq] < stamped[sell.seq] THEN buy.price
    ELSE IF stamped[sell.seq] < stamped[buy.seq] THEN sell.price
    ELSE best_bid_price

\* C18: every match of the limit matching loop is between the front of the
\* best bid level and the front of the best ask level and executes at the
\* buy order's price when the buy order is the earlier one, at the sell
\* order's price when the sell order is the earlier one, and at the best bid
\* price when their timestamps are equal, the timestamp of an order being
\* that of the NEW or MODIFY event that placed it in its level.
C18_TradePriceByTimestamp ==
    \A k \in LimitTrades :
        LET t == trades[k]
            best_bid_price == SetMax(DOMAIN t.bids)
            best_ask_price == SetMin(DOMAIN t.asks)
        IN  /\ t.aggressive = Head(t.bids[best_bid_price])
            /\ t.passive = Head(t.asks[best_ask_price])
            /\ t.aggressive.timestamp = stamped[t.aggressive.seq]
            /\ t.passive.timestamp = stamped[t.passive.seq]
            /\ t.price = RulePrice(t.aggressive, t.passive, best_bid_price)
            /\ out[t.at].execution_price = t.price

\* A MODIFY moved an order across the spread and its new timestamp decides
\* the price: the modified order is the later of the two and the match
\* executes at the other order's price.
C18_Witness ==
    /\ event.action = "MODIFY"
    /\ reused_ids = {}
    /\ \E k \in LimitTrades :
          LET t == trades[k]
          IN  /\ t.qty > 0
              /\ \/ /\ t.aggressive.order_id = event.order_id
                    /\ t.passive.timestamp < event.timestamp
                    /\ t.price = t.passive.price
                 \/ /\ t.passive.order_id = event.order_id
                    /\ t.aggressive.timestamp < event.timestamp
                    /\ t.price = t.aggressive.price

\* Two NEW orders of different prices match and the earlier one, the resting
\* order, gives the price.
C18_WitnessPrices ==
    /\ event.action = "NEW"
    /\ \E k \in LimitTrades :
          LET t == trades[k]
          IN  /\ t.qty > 0
              /\ t.aggressive.price > t.passive.price
              /\ t.aggressive.timestamp # t.passive.timestamp

\* The last call was given a NEW MARKET order of this book's instrument.
NewMarketEvent ==
    /\ event.action = "NEW"
    /\ event.type = "MARKET"
    /\ event.instrument = BookInstrument

\* The ladder opposing an order of side s, among the ladders bids and asks,
\* and the key of its best level.
Opposing(s, bids, asks) == IF s = "BUY" THEN asks ELSE bids
BestOpposing(s, bids, asks) == IF s = "BUY" THEN SetMin(DOMAIN asks) ELSE SetMax(DOMAIN bids)

\* What remains of the MARKET order after the matches of the call.
MarketRemaining ==
    IF trades = << >> THEN event.quantity
    ELSE trades[Len(trades)].aggressive.remaining_quantity - trades[Len(trades)].qty

\* C19: a NEW MARKET order matches, one after the other, the front order of
\* the best level of the opposing ladder as that ladder stands at the time,
\* each match at the resting order's price and for the smaller of the two
\* remaining quantities; it matches only while something of it remains, and
\* when the call returns nothing of it remains or the opposing ladder is
\* empty; the prices of successive matches never fall for a BUY and never
\* rise for a SELL.
C19_MarketSweep ==
    NewMarketEvent =>
        /\ \A k \in 1..Len(trades) :
              LET t == trades[k]
                  opp == Opposing(event.side, t.bids, t.asks)
              IN  /\ t.aggressive.order_id = event.order_id
                  /\ t.aggressive.type = "MARKET"
                  /\ t.aggressive.remaining_quantity > 0
                  /\ t.aggressive.remaining_quantity =
                        IF k = 1 THEN event.quantity
                        ELSE trades[k - 1].aggressive.remaining_quantity - trades[k - 1].qty
                  /\ opp # EmptyLadder
                  /\ t.passive = Head(opp[BestOpposing(event.side, t.bids, t.asks)])
                  /\ t.price = t.passive.price
                  /\ t.price = BestOpposing(event.side, t.bids, t.asks)
                  /\ t.qty = Min(t.aggressive.remaining_quantity,
                                 t.passive.remaining_quantity)
                  /\ out[t.at].execution_price = t.price
                  /\ out[t.at].executed_quantity = t.qty
                  /\ k > 1 => IF event.side = "BUY" THEN trades[k - 1].price <= t.price
                              ELSE trades[k - 1].price >= t.price
        /\ MarketRemaining = 0 \/ Opposing(event.side, bids_, asks_) = EmptyLadder

\* A MARKET order swept two levels at different prices, each match of
\* positive quantity.
C19_Witness ==
    /\ NewMarketEvent
    /\ Len(trades) = 2
    /\ trades[1].qty > 0 /\ trades[2].qty > 0
    /\ trades[1].price # trades[2].price
    /\ reused_ids = {}

C21_RestingRecordBeforeMarket ==
    NewMarketEvent =>
        \A k \in 1..Len(trades) :
            /\ out[trades[k].at].type = "LIMIT"
            /\ out[trades[k].at].side # event.side
            /\ out[trades[k].at + 1].type = "MARKET"
            /\ out[trades[k].at + 1].side = event.side

\* The last call was given a NEW LIMIT order of this book's instrument.
NewLimitEvent ==
    /\ event.action = "NEW"
    /\ event.type = "LIMIT"
    /\ event.instrument = BookInstrument

\* C22: a NEW LIMIT event emits first one PENDING record for the new order
\* and after it nothing but the records of the matches, so that no other
\* record of the event is PENDING, also when the order is executed completely
\* in the same event; for every match of the limit matching loop, in any
\* event, the record of the buy order is immediately followed by the record
\* of the sell order.
C22_NewLimitRecordSequence ==
    /\ NewLimitEvent =>
          /\ Len(out) = 1 + 2 * Len(trades)
          /\ out[1].status = "PENDING"
          /\ out[1].action = "NEW"
          /\ out[1].order_id = event.order_id
          /\ out[1].side = sideToString(event.side)
          /\ out[1].quantity = event.quantity
          /\ out[1].price = event.price
          /\ out[1].timestamp = event.timestamp
          /\ \A j \in 2..Len(out) : j \in TradePositions /\ out[j].status # "PENDING"
          /\ \A k \in 1..Len(trades) : k \in LimitTrades /\ trades[k].at = 2 * k
    /\ \A k \in LimitTrades :
          /\ out[trades[k].at].side = "BUY"
          /\ out[trades[k].at].order_id = trades[k].aggressive.order_id
          /\ trades[k].aggressive.side = "BUY"
          /\ out[trades[k].at + 1].side = "SELL"
          /\ out[trades[k].at + 1].order_id = trades[k].passive.order_id
          /\ trades[k].passive.side = "SELL"

\* A NEW SELL LIMIT order is executed completely by its own event: its
\* PENDING record comes first, then the buy order's record, then its own
\* EXECUTED record.
C22_Witness ==
    /\ NewLimitEvent
    /\ event.side = "SELL"
    /\ event.quantity > 0
    /\ reused_ids = {}
    /\ Len(out) >= 3
    /\ out[2].order_id # event.order_id
    /\ out[3].order_id = event.order_id
    /\ out[3].status = "EXECUTED"
    /\ out[3].executed_quantity > 0

\* ------------------------------------------------------------------ claims: one book, steps

\* The ladder l without the order of push_back number s: the other orders
\* keep their fields, their levels and their order within each level.
Keep(level, s) == SelectSeq(level, LAMBDA o : o.seq # s)
Without(l, s) ==
    IF {p \in DOMAIN l : Keep(l[p], s) # << >>} = {} THEN EmptyLadder
    ELSE [p \in {q \in DOMAIN l : Keep(l[q], s) # << >>} |-> Keep(l[p], s)]

\* The step is a call given a CANCEL or MODIFY of this book's instrument.
CancelStep ==
    /\ nEvents' = nEvents + 1
    /\ event'.action = "CANCEL"
    /\ event'.instrument = BookInstrument
ModifyStep ==
    /\ nEvents' = nEvents + 1
    /\ event'.action = "MODIFY"
    /\ event'.instrument = BookInstrument

\* The orders of the given id resting before the step.
RestingWithId(id) == {o \in AllResting : o.order_id = id}

\* C23: a CANCEL whose order id rests in a ladder removes one order of that
\* id and no other, every other order keeping its fields, its level and its
\* place among the others; it emits exactly one record, with status
\* CANCELED, action CANCEL, the event's timestamp, quantity column 0 and
\* price column 0, and makes no match.
C23_CancelOfRestingOrder ==
    [][ (CancelStep /\ RestingWithId(event'.order_id) # {}) =>
            /\ \E o \in RestingWithId(event'.order_id) :
                  /\ bids_' = Without(bids_, o.seq)
                  /\ asks_' = Without(asks_, o.seq)
                  /\ out'[1].side = sideToString(o.side)
            /\ trades' = << >>
            /\ Len(out') = 1
            /\ out'[1].status = "CANCELED"
            /\ out'[1].action = "CANCEL"
            /\ out'[1].order_id = event'.order_id
            /\ out'[1].timestamp = event'.timestamp
            /\ out'[1].quantity = 0
            /\ out'[1].price = 0
            /\ out'[1].executed_quantity = 0
            /\ out'[1].counterparty_id = 0 ]_vars

\* The second order of a level was cancelled and the first still rests there.
C23_Witness ==
    /\ event.action = "CANCEL"
    /\ Len(out) = 1
    /\ out[1].status = "CANCELED"
    /\ reused_ids = {}
    /\ logged[1].seq = 2
    /\ \E o \in AllResting :
          o.seq = 1 /\ o.price = logged[1].price /\ o.side = logged[1].side

\* C24: a MODIFY or CANCEL whose order id rests in neither ladder emits
\* exactly one record, with status REJECTED and the fields of the request,
\* and leaves both ladders as they were.
C24_UnknownOrderIdRejected ==
    [][ ((CancelStep \/ ModifyStep) /\ RestingWithId(event'.order_id) = {}) =>
            /\ bids_' = bids_
            /\ asks_' = asks_
            /\ trades' = << >>
            /\ out' = << OutputRecord(event'.timestamp, event'.order_id, BookInstrument,
                                      event'.side, event'.type, event'.quantity,
                                      event'.price, event'.action, "REJECTED", 0, 0, 0) >> ]_vars

\* A MODIFY of an id that no resting order carries was rejected while orders
\* of other ids rest on both sides.
C24_Witness ==
    /\ event.action = "MODIFY"
    /\ event.instrument = BookInstrument
    /\ Len(out) = 1
    /\ out[1].status = "REJECTED"
    /\ bids_ # EmptyLadder
    /\ asks_ # EmptyLadder
    /\ \A o \in AllResting : o.order_id # event.order_id

\* The level of ladder l that holds the order of push_back number s.
LevelOf(l, s) == CHOOSE p \in DOMAIN l : \E i \in 1..Len(l[p]) : l[p][i].seq = s

\* C25: when a LIMIT MODIFY was accepted and the order it re-inserted still
\* rests after the step, that order carries the event's id and price and is
\* the last of its level, behind every other order of the level.
C25_ModifyLosesTimePriority ==
    [][ (ModifyStep /\ event'.type = "LIMIT" /\ pushes' = pushes + 1) =>
            /\ pushes' \in SeqsOf(bids_') =>
                  /\ LevelOf(bids_', pushes') = event'.price
                  /\ bids_'[event'.price][Len(bids_'[event'.price])].seq = pushes'
                  /\ bids_'[event'.price][Len(bids_'[event'.price])].order_id = event'.order_id
            /\ pushes' \in SeqsOf(asks_') =>
                  /\ LevelOf(asks_', pushes') = event'.price
                  /\ asks_'[event'.price][Len(asks_'[event'.price])].seq = pushes'
                  /\ asks_'[event'.price][Len(asks_'[event'.price])].order_id = event'.order_id ]_vars

\* The first order placed was modified and rests behind the second, which
\* was placed after it at the same price.
C25_Witness ==
    /\ event.action = "MODIFY"
    /\ event.type = "LIMIT"
    /\ reused_ids = {}
    /\ pushes = 3
    /\ \E l \in {bids_, asks_} :
          /\ event.price \in DOMAIN l
          /\ Len(l[event.price]) = 2
          /\ l[event.price][1].seq = 2
          /\ l[event.price][1].timestamp >= event.timestamp
          /\ l[event.price][2].seq = 3
          /\ l[event.price][2].order_id = event.order_id

\* C26: when a MODIFY states a quantity that is not above what the resting
\* order of its id has executed already, the step removes that order and
\* re-inserts nothing, makes no match, and emits exactly one record, for
\* that order, with executed quantity 0 and counterparty 0, whose status is
\* CANCELED when the new quantity and the executed quantity are both 0 and
\* EXECUTED otherwise.
C26_ModifyBelowExecuted ==
    [][ ( /\ ModifyStep
          /\ RestingWithId(event'.order_id) # {}
          /\ \A o \in RestingWithId(event'.order_id) :
                event'.quantity <= o.cumulative_executed_quantity ) =>
            /\ \E o \in RestingWithId(event'.order_id) :
                  /\ bids_' = Without(bids_, o.seq)
                  /\ asks_' = Without(asks_, o.seq)
                  /\ out'[1].side = sideToString(o.side)
                  /\ out'[1].status =
                        IF event'.quantity = 0 /\ o.cumulative_executed_quantity = 0
                        THEN "CANCELED" ELSE "EXECUTED"
            /\ pushes' = pushes
            /\ trades' = << >>
            /\ Len(out') = 1
            /\ out'[1].order_id = event'.order_id
            /\ out'[1].action = "MODIFY"
            /\ out'[1].timestamp = event'.timestamp
            /\ out'[1].executed_quantity = 0
            /\ out'[1].execution_price = 0
            /\ out'[1].counterparty_id = 0 ]_vars

\* A partially executed order was modified to a positive quantity that it
\* had executed already: the single record is EXECUTED and the order is gone.
C26_Witness ==
    /\ event.action = "MODIFY"
    /\ event.instrument = BookInstrument
    /\ event.quantity > 0
    /\ reused_ids = {}
    /\ trades = << >>
    /\ Len(out) = 1
    /\ out[1].status = "EXECUTED"
    /\ logged[1].cumulative_executed_quantity >= event.quantity
    /\ \A o \in AllResting : o.order_id # event.order_id

\* The positions of the records of the last call that are no part of a match.
PlainRecords(o, ts) == (1..Len(o)) \ UNION {{ts[k].at, ts[k].at + 1} : k \in 1..Len(ts)}

\* C27: a LIMIT MODIFY that was accepted and re-inserted its order emits,
\* besides the records of its matches, one record for the order, after all
\* others and with status PENDING, exactly when the order still rests after
\* matching and is a party of no match of this step; otherwise it emits the
\* records of its matches only.  Matches of earlier events play no part.
\* Order ids are unique: no two NEW events carried the same id.
C27_ModifyTrailingPending ==
    [][ (ModifyStep /\ event'.type = "LIMIT" /\ pushes' = pushes + 1 /\ reused_ids = {}) =>
            IF /\ pushes' \in SeqsOf(bids_') \cup SeqsOf(asks_')
               /\ pushes' \notin TradeSeqs(trades')
            THEN /\ PlainRecords(out', trades') = {Len(out')}
                 /\ out'[Len(out')].status = "PENDING"
                 /\ out'[Len(out')].action = "MODIFY"
                 /\ out'[Len(out')].order_id = event'.order_id
                 /\ out'[Len(out')].quantity = event'.quantity
                 /\ out'[Len(out')].price = event'.price
            ELSE /\ PlainRecords(out', trades') = {}
                 /\ \A j \in 1..Len(out') : out'[j].status # "PENDING" ]_vars

\* An order that was partially executed by an earlier event was modified and
\* rests without a match in this event: the PENDING record is emitted.
C27_Witness ==
    /\ event.action = "MODIFY"
    /\ event.type = "LIMIT"
    /\ reused_ids = {}
    /\ trades = << >>
    /\ Len(out) = 1
    /\ out[1].status = "PENDING"
    /\ logged[1].cumulative_executed_quantity > 0
    /\ logged[1].remaining_quantity > 0

\* A modified order matched in its own event and rests with what remains: no
\* PENDING record.
C27_WitnessTraded ==
    /\ event.action = "MODIFY"
    /\ event.type = "LIMIT"
    /\ reused_ids = {}
    /\ trades # << >>
    /\ \E o \in AllResting : o.order_id = event.order_id /\ o.seq = pushes
                             /\ o.remaining_quantity > 0

\* The re-inserted order of push_back number s as the step's MODIFY made it:
\* as it entered its first match of the step if it has one, as it rests
\* otherwise.
FirstTradeOf(ts, s) ==
    SetMin({k \in 1..Len(ts) : s \in {ts[k].aggressive.seq, ts[k].passive.seq}})
AsModified(ts, resting, s) ==
    IF s \in TradeSeqs(ts)
    THEN IF ts[FirstTradeOf(ts, s)].aggressive.seq = s
         THEN ts[FirstTradeOf(ts, s)].aggressive
         ELSE ts[FirstTradeOf(ts, s)].passive
    ELSE CHOOSE o \in resting : o.seq = s

\* C28: every resting order has remaining_quantity + cumulative_executed_quantity
\* = quantity; and the order an accepted LIMIT MODIFY re-inserts has the
\* event's quantity, the cumulative executed quantity the order had before
\* and the difference of the two as remaining quantity (order ids unique).
C28_RestingOrderAccounting ==
    /\ [](\A o \in AllResting :
              o.remaining_quantity + o.cumulative_executed_quantity = o.quantity)
    /\ [][ (ModifyStep /\ event'.type = "LIMIT" /\ pushes' = pushes + 1 /\ reused_ids = {}) =>
              \A o \in RestingWithId(event'.order_id) :
                  /\ AsModified(trades', AllResting', pushes').quantity = event'.quantity
                  /\ AsModified(trades', AllResting', pushes').cumulative_executed_quantity
                        = o.cumulative_executed_quantity
                  /\ AsModified(trades', AllResting', pushes').remaining_quantity
                        = event'.quantity - o.cumulative_executed_quantity ]_vars

\* A partially executed order was modified to a larger quantity and rests:
\* it keeps what it executed and has the rest of the new quantity remaining.
C28_Witness ==
    /\ event.action = "MODIFY"
    /\ event.type = "LIMIT"
    /\ reused_ids = {}
    /\ \E o \in AllResting :
          /\ o.order_id = event.order_id
          /\ o.seq = pushes
          /\ o.cumulative_executed_quantity > 0
          /\ o.remaining_quantity > 0
          /\ o.quantity = event.quantity

\* ------------------------------------------------------------------ claims: one book, resting orders

\* C29: after any event every resting order has a positive remaining
\* quantity and status PENDING or PARTIALLY_EXECUTED.
C29_RestingOrdersAreLive ==
    \A o \in AllResting :
        /\ o.remaining_quantity > 0
        /\ o.status \in {"PENDING", "PARTIALLY_EXECUTED"}

\* The orders of a level that a step given event e with matches ts leaves
\* alone: they do not carry the event's id and are a party of no match.
Untouched(level, e, ts) ==
    SelectSeq(level, LAMBDA o : o.order_id # e.order_id /\ o.seq \notin TradeSeqs(ts))
LevelAt(l, p) == IF p \in DOMAIN l THEN l[p] ELSE << >>

\* The step is one call of processSingleOrder.
EventStep == nEvents' = nEvents + 1

\* C30: a step changes no resting order other than those of the event's id
\* and the parties of its matches: in every level of either ladder the other
\* orders are the same before and after, with all their fields and in the
\* same order; and a resting order that was a party of a match of the step
\* and still rests is the front of its level.
C30_FrameOfAnEvent ==
    [][ EventStep =>
            /\ \A p \in Prices :
                  /\ Untouched(LevelAt(bids_', p), event', trades')
                        = Untouched(LevelAt(bids_, p), event', trades')
                  /\ Untouched(LevelAt(asks_', p), event', trades')
                        = Untouched(LevelAt(asks_, p), event', trades')
            /\ DOMAIN bids_' \subseteq Prices
            /\ DOMAIN asks_' \subseteq Prices
            /\ \A p \in DOMAIN bids_' :
                  \A i \in 1..Len(bids_'[p]) :
                      bids_'[p][i].seq \in TradeSeqs(trades') => i = 1
            /\ \A p \in DOMAIN asks_' :
                  \A i \in 1..Len(asks_'[p]) :
                      asks_'[p][i].seq \in TradeSeqs(trades') => i = 1 ]_vars

\* A match left its resting party at the front of its level with quantity
\* remaining, and behind it rests an order the event did not touch.
C30_Witness ==
    /\ trades # << >>
    /\ reused_ids = {}
    /\ \E l \in {bids_, asks_} : \E p \in DOMAIN l :
          /\ Len(l[p]) >= 2
          /\ l[p][1].seq \in TradeSeqs(trades)
          /\ l[p][1].remaining_quantity > 0
          /\ l[p][1].order_id # event.order_id
          /\ l[p][2].seq \notin TradeSeqs(trades)
          /\ l[p][2].order_id # event.order_id

\* ------------------------------------------------------------------ claims: the pipeline, routing

\* The order the router has popped and not yet passed to addOrder.
InHand == IF router_pc \in {"route", "add"} THEN <<order_request>> ELSE << >>

\* C31: every order popped from the input queue is in the router's hand or
\* was passed to addOrder, once and in pop order; a book exists only for an
\* instrument some popped order carries, it carries that instrument's name,
\* has a worker, and its inbox and the orders it processed are together the
\* orders forwarded for its instrument, so that it never receives an order
\* of another instrument; a step that creates a book creates the one of the
\* order in hand, which is the first of its instrument, and starts its
\* worker; and no worker is started for an instrument that has a book.
C31_RoutingOneBookPerInstrument ==
    /\ [](/\ Pushed = forwarded \o InHand \o order_queue
          /\ router_pc = "add" => order_request.instrument \in DOMAIN order_books
          /\ \A i \in InstrumentSet : (i \in DOMAIN order_books) <=> (worker_pc[i] # "none")
          /\ \A i \in DOMAIN order_books :
                /\ order_books[i].instrument_name_ = i
                /\ OfInstrument(forwarded \o InHand, i) # << >>
                /\ processed[i] \o order_books[i].order_queue_ = OfInstrument(forwarded, i)
                /\ \A k \in 1..Len(processed[i]) : processed[i][k].instrument = i
                /\ \A k \in 1..Len(emitted[i]) :
                      emitted[i][k].instrument = i /\ emitted[i][k].status # "REJECTED")
    /\ [][ /\ DOMAIN order_books' # DOMAIN order_books =>
                 /\ router_pc = "route"
                 /\ order_request.instrument \notin DOMAIN order_books
                 /\ DOMAIN order_books' = DOMAIN order_books \cup {order_request.instrument}
                 /\ OfInstrument(forwarded, order_request.instrument) = << >>
                 /\ worker_pc[order_request.instrument] = "none"
                 /\ worker_pc'[order_request.instrument] = "loop"
           /\ \A i \in InstrumentSet :
                 (worker_pc[i] = "none" /\ worker_pc'[i] # "none") =>
                     i \notin DOMAIN order_books /\ i \in DOMAIN order_books' ]_vars

\* Two books exist, the second order of instrument X was forwarded to the
\* book created for the first, and both books have processed an order.
C31_Witness ==
    /\ DOMAIN order_books = InstrumentSet
    /\ Len(OfInstrument(forwarded, "X")) >= 2
    /\ \A i \in InstrumentSet : processed[i] # << >>


\* ------------------------------------------------------------------ claims: one book, the incoming order

\* The push_back numbers of the orders resting before the step.
RestingSeqs == SeqsOf(bids_) \cup SeqsOf(asks_)

\* The step's matches are all matches of the order of push_back number s
\* with an order that rested before the step and is not that order.
TradesOf(s) ==
    \A k \in 1..Len(trades') :
        \E own \in {trades'[k].aggressive, trades'[k].passive} :
        \E other \in {trades'[k].aggressive, trades'[k].passive} :
            /\ own.seq = s
            /\ own.order_id = event'.order_id
            /\ other.seq # s
            /\ other.seq \in RestingSeqs
            /\ own.side # other.side

\* C32: in every call that makes a match there is one order, the order the
\* event names, that is a party of every match of the call: the MARKET order
\* of a NEW event (never inserted), the order the call pushed into a ladder
\* (NEW LIMIT, LIMIT MODIFY), or the resting order of the event's id that a
\* MODIFY to MARKET took out of its ladder; the other party rested before
\* the call, so two orders that both rested before the call and are not the
\* event's order never trade with each other.
C32_TradesInvolveIncomingOrder ==
    [][(EventStep /\ trades' # << >>) =>
          \E s \in 0..pushes' :
              /\ TradesOf(s)
              /\ s = 0 => event'.action = "NEW" /\ event'.type = "MARKET"
              /\ s > pushes => event'.action \in {"NEW", "MODIFY"} /\ event'.type = "LIMIT"
              /\ s \in 1..pushes =>
                    /\ event'.action = "MODIFY" /\ event'.type = "MARKET"
                    /\ \E o \in RestingWithId(event'.order_id) : o.seq = s ]_vars

\* A NEW LIMIT order has traded while an older order rests untouched on its
\* own side: the older order and the order it traded with both rested
\* before the event and did not trade with each other.
C32_Witness ==
    /\ event.action = "NEW" /\ event.type = "LIMIT"
    /\ trades # << >>
    /\ \E o \in AllResting :
          /\ o.side = event.side
          /\ o.order_id # event.order_id
          /\ o.seq \notin TradeSeqs(trades)
          /\ o.remaining_quantity > 0


\* The parties of match k of the last call.
Parties(k) == {trades[k].aggressive, trades[k].passive}

\* C33: the price of every match, which is the execution price of both its
\* records, is at most the price of every LIMIT party that buys and at least
\* the price of every LIMIT party that sells (a MARKET party has no limit).
C33_LimitPricesRespected ==
    \A k \in 1..Len(trades) :
        /\ out[trades[k].at].execution_price = trades[k].price
        /\ out[trades[k].at + 1].execution_price = trades[k].price
        /\ \A o \in Parties(k) :
              o.type = "LIMIT" =>
                  /\ o.side = "BUY" => trades[k].price <= o.price
                  /\ o.side = "SELL" => trades[k].price >= o.price

\* Two LIMIT orders of different prices have traded, at a price strictly
\* better than the limit of one of them.
C33_Witness ==
    \E k \in 1..Len(trades) :
        /\ \A o \in Parties(k) : o.type = "LIMIT"
        /\ \E o \in Parties(k) :
              \/ o.side = "BUY" /\ trades[k].price < o.price
              \/ o.side = "SELL" /\ trades[k].price > o.price


\* C34: a call that emits a REJECTED record leaves bids_ and asks_ as they
\* were before the call: the same levels and the same orders, with the same
\* fields, in the same order within each level.
C34_RejectionLeavesBookUnchanged ==
    [][(EventStep /\ \E j \in 1..Len(out') : out'[j].status = "REJECTED") =>
          (bids_' = bids_ /\ asks_' = asks_)]_vars


\* C35: every call of processSingleOrder pushes at least one record.
C35_EveryEventReported == nEvents > 0 => out # << >>


\* The side of the order of push_back number s that is a party of the first
\* match of the step, and the number of orders resting on the other side
\* before the step.
OwnSide(s) ==
    (CHOOSE o \in {trades'[1].aggressive, trades'[1].passive} : o.seq = s).side
OpposingAtStart(s) ==
    Cardinality(Places(Opposing(OwnSide(s), bids_, asks_)))

\* C36: every call of processSingleOrder returns (its loops are evaluated to
\* their end in every reachable state); every match fills one of its two
\* parties completely, and a party filled completely that was taken from a
\* ladder rests no more after the call; and the number of matches of a call
\* is at most the number of orders that rested, before the call, on the side
\* opposite to the event's order.
C36_MatchingBounded ==
    /\ [](\A k \in 1..Len(trades) :
             /\ \E o \in Parties(k) : o.remaining_quantity = trades[k].qty
             /\ \A o \in Parties(k) :
                   (o.remaining_quantity = trades[k].qty /\ o.seq # 0) =>
                       o.seq \notin (SeqsOf(bids_) \cup SeqsOf(asks_)))
    /\ [][(EventStep /\ trades' # << >>) =>
             \E s \in 0..pushes' :
                 /\ TradesOf(s)
                 /\ Len(trades') <= OpposingAtStart(s) ]_vars

\* A NEW LIMIT order has made two matches against the two orders that
\* rested on the opposite side.
C36_Witness ==
    /\ event.action = "NEW" /\ event.type = "LIMIT"
    /\ Len(trades) = 2
    /\ Cardinality(Places(Opposing(event.side, trades[1].bids, trades[1].asks))) = 2


\* The side of the order a MODIFY of the given id finds before the step:
\* bids_ is searched first, then asks_.
OriginalSide(id) ==
    IF \E pp \in Places(bids_) : bids_[pp[1]][pp[2]].order_id = id THEN "BUY" ELSE "SELL"

\* C37: a MODIFY that finds its order and is given more than the order has
\* executed keeps the order on the side it rested on, whatever side the
\* request states: a LIMIT MODIFY pushes it into the ladder of that side
\* and matches it against the other, a MARKET MODIFY sweeps the ladder
\* opposite to that side, and the records of the order carry that side.
C37_ModifyKeepsSide ==
    [][(ModifyStep /\ RestingWithId(event'.order_id) # {}) =>
          /\ (event'.type = "LIMIT" /\ pushes' = pushes + 1) =>
                /\ AsModified(trades', AllResting', pushes').side
                      = OriginalSide(event'.order_id)
                /\ pushes' \in SeqsOf(bids_') => OriginalSide(event'.order_id) = "BUY"
                /\ pushes' \in SeqsOf(asks_') => OriginalSide(event'.order_id) = "SELL"
                /\ TradesOf(pushes')
          /\ event'.type = "MARKET" =>
                \A k \in 1..Len(trades') :
                    /\ trades'[k].aggressive.order_id = event'.order_id
                    /\ trades'[k].aggressive.side = OriginalSide(event'.order_id)
                    /\ trades'[k].passive.side # OriginalSide(event'.order_id)
                    /\ trades'[k].passive.seq \in
                           SeqsOf(Opposing(OriginalSide(event'.order_id), bids_, asks_))
          /\ reused_ids = {} =>
                \A j \in 1..Len(out') :
                    out'[j].order_id = event'.order_id =>
                        out'[j].side = sideToString(OriginalSide(event'.order_id)) ]_vars

\* A LIMIT MODIFY whose request states the other side was accepted, and the
\* order rests on the side it had.
C37_Witness ==
    /\ event.action = "MODIFY" /\ event.type = "LIMIT"
    /\ \E o \in AllResting :
          /\ o.seq = pushes
          /\ o.action = "MODIFY"
          /\ o.order_id = event.order_id
          /\ o.timestamp = event.timestamp
          /\ o.side # event.side

\* A MARKET MODIFY whose request states the other side has swept the ladder
\* opposite to the side the order rested on.
C37_WitnessMarket ==
    /\ event.action = "MODIFY" /\ event.type = "MARKET"
    /\ trades # << >>
    /\ trades[1].aggressive.side # event.side


\* C38: as long as no two NEW events of this book carried the same order id,
\* the two ladders together hold at most one order of any id.
C38_OneRestingOrderPerId ==
    reused_ids = {} =>
        \A o1 \in AllResting : \A o2 \in AllResting :
            o1.order_id = o2.order_id => o1 = o2

\* An order was modified and rests, a second order rests too, and no id was
\* used by two NEW events: the modified order is in the ladders once.
C38_Witness ==
    /\ reused_ids = {}
    /\ event.action = "MODIFY"
    /\ Cardinality(AllResting) >= 2
    /\ \E o \in AllResting : o.order_id = event.order_id /\ o.seq = pushes /\ o.action = "MODIFY"


\* ------------------------------------------------------------------ claims: one book, terminal orders

\* The step is a call given a MODIFY or CANCEL of this book for the id.
ModifyOrCancelOf(id) ==
    /\ event'.action \in {"MODIFY", "CANCEL"}
    /\ event'.instrument = BookInstrument
    /\ event'.order_id = id

\* The step is a call given a NEW event of this book for the id.
NewOf(id) ==
    /\ event'.action = "NEW"
    /\ event'.instrument = BookInstrument
    /\ event'.order_id = id

\* C39: an id for which a record with status EXECUTED or CANCELED was
\* emitted, and which no NEW event has carried since (nor while an earlier
\* order of the id was not yet terminal), has no order in either ladder; a
\* later call that is not a NEW event of that id makes no match that the id
\* is a party of and emits no record of the id other than REJECTED; and a
\* later MODIFY or CANCEL of the id emits one record, with status REJECTED.
C39_TerminalOrdersStayTerminal ==
    /\ [](\A id \in OrderIds : life[id] = "terminal" => RestingWithId(id) = {})
    /\ [][EventStep =>
             \A id \in OrderIds :
                 (life[id] = "terminal" /\ ~NewOf(id)) =>
                     /\ life'[id] = "terminal"
                     /\ \A k \in 1..Len(trades') :
                           /\ trades'[k].aggressive.order_id # id
                           /\ trades'[k].passive.order_id # id
                     /\ \A j \in 1..Len(out') :
                           /\ out'[j].counterparty_id # id
                           /\ out'[j].order_id = id => out'[j].status = "REJECTED"
                     /\ ModifyOrCancelOf(id) =>
                           /\ Len(out') = 1
                           /\ out'[1].status = "REJECTED"
                           /\ out'[1].order_id = id
                           /\ bids_' = bids_ /\ asks_' = asks_ ]_vars

\* An order was executed by a match, and a later CANCEL of its id was
\* rejected while another order rests.
C39_Witness ==
    /\ event.action = "CANCEL"
    /\ life[event.order_id] = "terminal"
    /\ executed_sum[event.order_id] > 0
    /\ Len(out) = 1 /\ out[1].status = "REJECTED"
    /\ AllResting # {}

====
